---------------------------- MODULE Spec2Model ----------------------------
(***************************************************************************)
(* A model of the drawengine-core crate (history.rs, layer.rs, stroke.rs,  *)
(* brush.rs, geometry.rs, point.rs, eraser.rs, render.rs, canvas.rs).      *)
(*                                                                         *)
(* Numbers.  The crate computes in f64.  The model computes in fixed point *)
(* over the integers:                                                      *)
(*   lengths (coordinates, widths, radii)  in tenths of a pixel            *)
(*   pressures, width factors, sensitivities, colour channels  in 1/1000   *)
(*   timestamps in milliseconds, velocities in whole pixels per second     *)
(* A division rounds down (\div); a square root is the integer square      *)
(* root.  The inputs the specifications draw are chosen so that the        *)
(* distances between samples are perfect squares and every third of a      *)
(* coordinate difference is whole.                                         *)
(***************************************************************************)
EXTENDS Integers, Sequences, FiniteSets, TLC

VARIABLES
    \* ---- a History on its own (history.rs) ----
    hist,          \* the History under test
    h_uuid,        \* the next fresh stroke id handed out by Uuid::new_v4
    h_op,          \* the last call made on hist: "new", "push", "undo", "redo"
    h_arg,         \* the action given to the last push (None otherwise)
    h_ret,         \* what the last call returned (Option<HistoryAction>)
    h_pre,         \* hist as it was before the last call
    h_op2,         \* the call before the last one
    h_pre2,        \* hist as it was before the call before the last one
    run_pushes,    \* the actions of the latest run of consecutive pushes
    run_undos,     \* what the undos made right after that run returned
    \* ---- the engine facade (canvas.rs) ----
    engine,        \* the DrawEngine
    next_uuid,     \* the next fresh id handed out by Uuid::new_v4
    op,            \* the last call made on the engine
    ret,           \* the render commands the last call returned
    pre,           \* the engine as it was before the last call
    fresh_run,     \* commits, then undos, then redos counted from DrawEngine::new
    undo_run,      \* the layers before each undo of the latest run of undos, and the redos after it
    erase_run,     \* the latest eraser stroke that removed strokes, and the undos after it
    brush_set_mid_stroke,  \* set_brush has been called while a stroke was in progress
    next_layer_uuid,   \* the next fresh id Uuid::new_v4 hands out to a Layer
    arg,           \* the document given to the last call when it was load (None otherwise)
    abandoned,     \* the ids of the strokes that were in flight when begin_stroke was called
    since_begin,   \* the samples given since the latest begin_stroke (none once end_stroke is called)
    stroke_open,   \* the latest call among begin_stroke and end_stroke was begin_stroke
    commit_run,    \* an end_stroke that pushed one action, and the undo right after it
    \* ---- a StrokeBuilder on its own (stroke.rs) ----
    builder,       \* the StrokeBuilder under test (None once finish has consumed it)
    b_op,          \* the last call made on it: "new", "add_point", "finish"
    b_ret,         \* what the last call returned: segments, or the finished Stroke
    b_pre,         \* the builder as it was before the last call
    \* ---- a Viewport on its own (transform.rs) ----
    viewport,      \* the Viewport under test
    v_op,          \* the last call made on it: "new", "zoom", "pan", "reset"
    v_arg,         \* the factor and the focal point given to the last call when it was zoom
    v_pre,         \* the viewport as it was before the last call
    v_calls,       \* the number of calls made on it
    v_nan_zoom,    \* some zoom was given the factor NaN
    \* ---- find_strokes_to_erase on its own (eraser.rs) ----
    x_strokes,     \* the slice of candidate strokes
    x_op,          \* the last call made: "none", "find_strokes_to_erase"
    x_point,       \* the eraser_point of the last call
    x_radius,      \* the eraser_radius of the last call
    x_ret,         \* the ids the last call returned
    \* ---- compute_width on its own and inside add_point (brush.rs) ----
    w_op,          \* the last call made: "none", "compute_width", "add_point"
    w_pressure,    \* the pressure of the last compute_width
    w_velocity,    \* the velocity of the last compute_width
    w_ret,         \* the width the last compute_width returned
    \* ---- threads calling a DrawEngineFFI (drawengine-ffi/src/engine.rs) ----
    l_pc,          \* where each thread is: "idle", "write_locked", "write_half", "read_locked", "read_half"
    l_call,        \* the method each thread is in or was last in
    l_entry,       \* the engine as the thread holding the write lock found it
    l_snap,        \* what each thread's query has read so far
    l_seen,        \* the engine as each thread's query found it
    l_committed,   \* the engine as the last complete mutating call left it
    l_calls,       \* the number of calls started
    \* ---- two threads drawing on one DrawEngineFFI ----
    p_done,        \* the calls of its pen sequence each thread has returned from: 0..3
    p_sent,        \* the samples each thread has supplied
    p_overlap      \* some begin_stroke was called while the other thread was inside its sequence

hvars == <<hist, h_uuid, h_op, h_arg, h_ret, h_pre, h_op2, h_pre2, run_pushes, run_undos>>

evars == <<engine, next_uuid, op, ret, pre, fresh_run, undo_run, erase_run, brush_set_mid_stroke, next_layer_uuid, arg, abandoned, since_begin, stroke_open, commit_run>>

bvars == <<builder, b_op, b_ret, b_pre>>

vvars == <<viewport, v_op, v_arg, v_pre, v_calls, v_nan_zoom>>

xvars == <<x_strokes, x_op, x_point, x_radius, x_ret>>

wvars == <<w_op, w_pressure, w_velocity, w_ret>>

lvars == <<l_pc, l_call, l_entry, l_snap, l_seen, l_committed, l_calls>>

pvars == <<p_done, p_sent, p_overlap>>

vars == <<hvars, evars, bvars, vvars, xvars, wvars, lvars, pvars>>

\* what the calls on the engine, on the History under test, on the
\* StrokeBuilder under test and on the Viewport under test leave alone
not_engine == <<hvars, bvars, vvars, xvars, wvars, lvars, pvars>>

not_history == <<evars, bvars, vvars, xvars, wvars, lvars, pvars>>

not_builder == <<hvars, evars, vvars, xvars, wvars, lvars, pvars>>

not_viewport == <<hvars, evars, bvars, xvars, wvars, lvars, pvars>>

not_eraser == <<hvars, evars, bvars, vvars, wvars, lvars, pvars>>

not_width == <<hvars, evars, vvars, xvars, lvars, pvars>>

\* what the two drawing threads leave alone, besides the engine
not_pens == <<hvars, bvars, vvars, xvars, wvars, lvars>>

\* what the threads of a DrawEngineFFI leave alone, besides the engine and its ids
not_lock == <<hvars, bvars, vvars, xvars, wvars, pvars>>

(***************************************************************************)
(* Bounds of the model.                                                    *)
(***************************************************************************)
\* the largest max_size a History under test is constructed with
MaxSize == 2
\* the number of stroke ids (pushes) available to a History under test
MaxPushes == 4
\* the number of strokes a host begins on the engine
MaxStrokes == 3
\* the number of samples a host sends for one stroke
MaxPoints == 3
\* the number of samples a StrokeBuilder under test is given
MaxSamples == 5
\* the number of strokes a host begins when it also moves the viewport, saves and loads
MaxFacadeStrokes == 1
\* the number of samples such a host sends for one stroke
MaxFacadePoints == 2
\* the number of layer ids available to the loads of such a host
MaxLoads == 1
\* the farthest, in tenths of a pixel, a pan may bring an offset from 0
MaxPan == 500
\* the number of calls made on a Viewport under test
MaxViewportCalls == 4
\* the number of strokes in a slice given to find_strokes_to_erase under test
MaxCandidates == 3
\* the number of samples given to a builder whose widths are under test
MaxWidthSamples == 3
\* the size the engine's history is scaled down to where evictions are to
\* happen within MaxStrokes strokes (History::default() has 100)
EvictSize == 2
\* the number of calls the threads make on a DrawEngineFFI
MaxLockCalls == 4

(***************************************************************************)
(* Option<T>                                                               *)
(***************************************************************************)
None == [some |-> FALSE]
Some(x) == [some |-> TRUE, val |-> x]

Front(s) == SubSeq(s, 1, Len(s) - 1)
Last(s) == s[Len(s)]
Min(a, b) == IF a <= b THEN a ELSE b
Max(a, b) == IF a >= b THEN a ELSE b

\* the stand-in for f64::NAN: a number no computation of the model gives
F64NaN == -2000000000

IsNaN(a) == a = F64NaN

(***************************************************************************)
(* point.rs: Color, Point, BoundingBox                                     *)
(***************************************************************************)
Color(r, g, b, a) == [r |-> r, g |-> g, b |-> b, a |-> a]
ColorBlack == Color(0, 0, 0, 1000)
ColorWhite == Color(1000, 1000, 1000, 1000)

Point(x, y) == [x |-> x, y |-> y]

\* the stand-in for f64::MAX (f64::MIN is its negation)
F64Max == 1000000000

BoundingBoxEmpty == [min_x |-> F64Max, min_y |-> F64Max, max_x |-> -F64Max, max_y |-> -F64Max]

(***************************************************************************)
(* brush.rs: BrushConfig                                                   *)
(***************************************************************************)
BrushPen(color, width) == [brush_type |-> "Pen", color |-> color, base_width |-> width, min_width_factor |-> 300, max_width_factor |-> 1500, pressure_sensitivity |-> 800, velocity_sensitivity |-> 300, smoothing |-> 500]

BrushHighlighter(color, width) == [brush_type |-> "Highlighter", color |-> [color EXCEPT !.a = 300], base_width |-> width, min_width_factor |-> 900, max_width_factor |-> 1100, pressure_sensitivity |-> 100, velocity_sensitivity |-> 50, smoothing |-> 200]

BrushEraser(width) == [brush_type |-> "Eraser", color |-> ColorWhite, base_width |-> width, min_width_factor |-> 800, max_width_factor |-> 1200, pressure_sensitivity |-> 0, velocity_sensitivity |-> 0, smoothing |-> 300]

\* BrushConfig::default(): pen(black, 2.0)
BrushDefault == BrushPen(ColorBlack, 20)

(***************************************************************************)
(* stroke.rs: Stroke::new.  The id is the fresh value of Uuid::new_v4.     *)
(***************************************************************************)
StrokeNew(brush, id) == [id |-> id, points |-> <<>>, segments |-> <<>>, color |-> brush.color, brush |-> brush, bounding_box |-> BoundingBoxEmpty, is_eraser |-> (brush.brush_type = "Eraser")]

(***************************************************************************)
(* history.rs                                                              *)
(***************************************************************************)
AddStroke(layer_index, stroke) == [tag |-> "AddStroke", layer_index |-> layer_index, stroke |-> stroke]
RemoveStroke(layer_index, stroke) == [tag |-> "RemoveStroke", layer_index |-> layer_index, stroke |-> stroke]

\* a bug: the inverse keeps the tag
InverseSameTag(action) == action

Inverse(action) ==
    IF action.tag = "AddStroke"
    THEN RemoveStroke(action.layer_index, action.stroke)
    ELSE AddStroke(action.layer_index, action.stroke)

HistoryNew(max_size) == [undo_stack |-> <<>>, redo_stack |-> <<>>, max_size |-> max_size]

\* a bug: push leaves the redo stack alone
HistoryPushKeepsRedo(h, action) ==
    LET pushed == Append(h.undo_stack, action)
    IN  [h EXCEPT !.undo_stack = IF Len(pushed) > h.max_size THEN Tail(pushed) ELSE pushed]

\* a bug: push never evicts
HistoryPushNoEvict(h, action) == [h EXCEPT !.redo_stack = <<>>, !.undo_stack = Append(h.undo_stack, action)]

\* a bug: on overflow push evicts the newest action instead of the oldest
HistoryPushEvictsNewest(h, action) ==
    LET pushed == Append(h.undo_stack, action)
    IN  [h EXCEPT !.redo_stack = <<>>,
                  !.undo_stack = IF Len(pushed) > h.max_size THEN Front(pushed) ELSE pushed]

HistoryPush(h, action) ==
    LET pushed == Append(h.undo_stack, action)
    IN  [h EXCEPT !.redo_stack = <<>>,
                  !.undo_stack = IF Len(pushed) > h.max_size THEN Tail(pushed) ELSE pushed]

\* undo and redo return the new History and the Option<HistoryAction>
HistoryUndo(h) ==
    IF h.undo_stack # <<>>
    THEN LET action == Last(h.undo_stack)
         IN  [h   |-> [h EXCEPT !.undo_stack = Front(h.undo_stack),
                                !.redo_stack = Append(h.redo_stack, action)],
              ret |-> Some(Inverse(action))]
    ELSE [h |-> h, ret |-> None]

HistoryRedo(h) ==
    IF h.redo_stack # <<>>
    THEN LET action == Last(h.redo_stack)
         IN  [h   |-> [h EXCEPT !.redo_stack = Front(h.redo_stack),
                                !.undo_stack = Append(h.undo_stack, action)],
              ret |-> Some(action)]
    ELSE [h |-> h, ret |-> None]

can_undo(h) == h.undo_stack # <<>>
can_redo(h) == h.redo_stack # <<>>

HistoryClear(h) == [h EXCEPT !.undo_stack = <<>>, !.redo_stack = <<>>]

(***************************************************************************)
(* Fixed-point helpers                                                     *)
(***************************************************************************)
Abs(a) == IF a >= 0 THEN a ELSE -a
Clamp(v, lo, hi) == IF v < lo THEN lo ELSE IF v > hi THEN hi ELSE v

RECURSIVE ISqrtR(_, _, _)
ISqrtR(n, lo, hi) ==
    IF lo >= hi THEN lo
    ELSE LET mid == (lo + hi + 1) \div 2
         IN  IF mid * mid <= n THEN ISqrtR(n, mid, hi) ELSE ISqrtR(n, lo, mid - 1)

\* f64::sqrt, rounded down to a whole number
ISqrt(n) == ISqrtR(n, 0, Min(n, 46340))

(***************************************************************************)
(* point.rs: Point, StrokePoint, BoundingBox                               *)
(***************************************************************************)
DistanceTo(a, b) ==
    LET dx == a.x - b.x
        dy == a.y - b.y
    IN  ISqrt(dx * dx + dy * dy)

\* Point::lerp with t = num / den
Lerp(a, b, num, den) == Point(a.x + ((b.x - a.x) * num) \div den, a.y + ((b.y - a.y) * num) \div den)

StrokePoint(x, y, pressure, timestamp) == [position |-> Point(x, y), pressure |-> pressure, timestamp |-> timestamp]

\* StrokePoint::speed_to, in pixels per second: a distance in tenths of a
\* pixel over a time in milliseconds; dt < 1e-9 s is dt = 0 ms
SpeedTo(a, b) ==
    LET dist == DistanceTo(a.position, b.position)
        dt == Abs(b.timestamp - a.timestamp)
    IN  IF dt = 0 THEN 0 ELSE (dist * 100) \div dt

ExpandToInclude(bb, point) == [min_x |-> Min(bb.min_x, point.x), min_y |-> Min(bb.min_y, point.y), max_x |-> Max(bb.max_x, point.x), max_y |-> Max(bb.max_y, point.y)]

ExpandBy(bb, margin) == [min_x |-> bb.min_x - margin, min_y |-> bb.min_y - margin, max_x |-> bb.max_x + margin, max_y |-> bb.max_y + margin]

Intersects(a, b) == a.min_x <= b.max_x /\ a.max_x >= b.min_x /\ a.min_y <= b.max_y /\ a.max_y >= b.min_y

IsValid(bb) == bb.min_x <= bb.max_x /\ bb.min_y <= bb.max_y

(***************************************************************************)
(* brush.rs: BrushConfig::compute_width                                    *)
(***************************************************************************)
\* the velocity, in pixels per second, above which the width no longer changes
VelocityCap == 1000

\* a bug: the factor is not clamped
ComputeWidthNoClamp(brush, pressure, velocity) ==
    IF IsNaN(pressure) THEN F64NaN
    ELSE LET pressure_factor == 1000 + ((pressure - 500) * brush.pressure_sensitivity) \div 1000
             capped == IF IsNaN(velocity) THEN VelocityCap ELSE Min(velocity, VelocityCap)
             velocity_factor == 1000 - ((((capped * 1000) \div VelocityCap) * brush.velocity_sensitivity) \div 1000)
         IN  (brush.base_width * ((pressure_factor * velocity_factor) \div 1000)) \div 1000

\* a NaN pressure makes the factor NaN, which clamp keeps; velocity.min(1000.0)
\* gives 1000.0 for a NaN velocity
ComputeWidth(brush, pressure, velocity) ==
    IF IsNaN(pressure) THEN F64NaN
    ELSE LET pressure_factor == 1000 + ((pressure - 500) * brush.pressure_sensitivity) \div 1000
             capped == IF IsNaN(velocity) THEN VelocityCap ELSE Min(velocity, VelocityCap)
             velocity_factor == 1000 - ((((capped * 1000) \div VelocityCap) * brush.velocity_sensitivity) \div 1000)
             factor == Clamp((pressure_factor * velocity_factor) \div 1000, brush.min_width_factor, brush.max_width_factor)
         IN  (brush.base_width * factor) \div 1000

(***************************************************************************)
(* geometry.rs: BezierSegment, catmull_rom_to_bezier                       *)
(***************************************************************************)
BezierSegment(p0, p1, p2, p3, start_width, end_width) == [p0 |-> p0, p1 |-> p1, p2 |-> p2, p3 |-> p3, start_width |-> start_width, end_width |-> end_width]

\* BezierSegment::evaluate at t = num / den
Evaluate(seg, num, den) ==
    LET mt == den - num
        mt2 == mt * mt
        mt3 == mt2 * mt
        t2 == num * num
        t3 == t2 * num
        den3 == den * den * den
    IN  Point((mt3 * seg.p0.x + 3 * mt2 * num * seg.p1.x + 3 * mt * t2 * seg.p2.x + t3 * seg.p3.x) \div den3,
              (mt3 * seg.p0.y + 3 * mt2 * num * seg.p1.y + 3 * mt * t2 * seg.p2.y + t3 * seg.p3.y) \div den3)

\* BezierSegment::width_at at t = num / den
WidthAt(seg, num, den) == seg.start_width + ((seg.end_width - seg.start_width) * num) \div den

\* the smallest distance catmull_rom_to_bezier divides by (1e-6 in the crate,
\* one unit of length here)
DistanceFloor == 1

\* the four control points, from the powers d^alpha (d1a, d2a, d3a) and
\* d^(2 alpha) (d1_2a, d2_2a, d3_2a) of the three distances
CatmullFromPowers(p0, p1, p2, p3, d1a, d2a, d3a, d1_2a, d2_2a, d3_2a) ==
    LET b1x == (d1_2a * p2.x - d2_2a * p0.x + (2 * d1_2a + 3 * d1a * d2a + d2_2a) * p1.x) \div (3 * d1a * (d1a + d2a))
        b1y == (d1_2a * p2.y - d2_2a * p0.y + (2 * d1_2a + 3 * d1a * d2a + d2_2a) * p1.y) \div (3 * d1a * (d1a + d2a))
        b2x == (d3_2a * p1.x - d2_2a * p3.x + (2 * d3_2a + 3 * d3a * d2a + d2_2a) * p2.x) \div (3 * d3a * (d3a + d2a))
        b2y == (d3_2a * p1.y - d2_2a * p3.y + (2 * d3_2a + 3 * d3a * d2a + d2_2a) * p2.y) \div (3 * d3a * (d3a + d2a))
    IN  <<p1, Point(b1x, b1y), Point(b2x, b2y), p2>>

\* the powers of the three clamped distances d1, d2, d3
CatmullControlPoints(p0, p1, p2, p3, d1, d2, d3) == CatmullFromPowers(p0, p1, p2, p3, ISqrt(d1), ISqrt(d2), ISqrt(d3), d1, d2, d3)

\* catmull_rom_to_bezier with alpha = 0.5, the only alpha the crate passes:
\* d^alpha is the square root of d and d^(2 alpha) is d
CatmullRomToBezier(p0, p1, p2, p3) ==
    CatmullControlPoints(p0, p1, p2, p3,
                         Max(DistanceTo(p0, p1), DistanceFloor),
                         Max(DistanceTo(p1, p2), DistanceFloor),
                         Max(DistanceTo(p2, p3), DistanceFloor))

(***************************************************************************)
(* stroke.rs: Stroke::recompute_bounding_box, StrokeBuilder                *)
(***************************************************************************)
\* the t steps recompute_bounding_box samples a segment at: 0..=10
BoundingBoxSteps == 10

\* one pass of the inner loop of recompute_bounding_box
ExpandStep(bb, seg, t_step) ==
    LET p == Evaluate(seg, t_step, BoundingBoxSteps)
        w == WidthAt(seg, t_step, BoundingBoxSteps)
    IN  ExpandBy(ExpandToInclude(bb, p), w \div 2)

\* a bug: only the start of the segment is sampled
ExpandOverSegmentStartOnly(bb, seg, t_step) == ExpandStep(bb, seg, 0)

\* the inner loop of recompute_bounding_box from t_step on (the test on the
\* box makes TLC compute it before the next pass, as the loop does)
RECURSIVE ExpandOverSegment(_, _, _)
ExpandOverSegment(bb, seg, t_step) ==
    IF t_step > BoundingBoxSteps \/ bb \notin [min_x : Int, min_y : Int, max_x : Int, max_y : Int] THEN bb
    ELSE ExpandOverSegment(ExpandStep(bb, seg, t_step), seg, t_step + 1)

\* the outer loop of recompute_bounding_box from segment i on
RECURSIVE ExpandOverSegments(_, _, _)
ExpandOverSegments(bb, segments, i) ==
    IF i > Len(segments) \/ bb \notin [min_x : Int, min_y : Int, max_x : Int, max_y : Int] THEN bb
    ELSE ExpandOverSegments(ExpandOverSegment(bb, segments[i], 0), segments, i + 1)

\* the end of recompute_bounding_box: the box is stored when it is valid
StoreBoundingBox(stroke, bb) == IF IsValid(bb) THEN [stroke EXCEPT !.bounding_box = bb] ELSE stroke

RecomputeBoundingBox(stroke) == StoreBoundingBox(stroke, ExpandOverSegments(BoundingBoxEmpty, stroke.segments, 1))

StrokeBuilderNew(brush, id) == [stroke |-> StrokeNew(brush, id), widths |-> <<>>, last_velocity |-> 0]

\* the linear stand-in segment from sample a to sample b
LinearSegment(a, b, wa, wb) == BezierSegment(a, Lerp(a, b, 1, 3), Lerp(a, b, 2, 3), b, wa, wb)

\* the Catmull-Rom cubic with the control points b and the widths w1, w2
SegmentOf(b, w1, w2) == BezierSegment(b[1], b[2], b[3], b[4], w1, w2)

\* the Catmull-Rom cubic over four samples, with the widths of the middle two
CatmullSegment(q0, q1, q2, q3, w1, w2) == SegmentOf(CatmullRomToBezier(q0, q1, q2, q3), w1, w2)

\* the start of add_point: the velocity is kept, the width and the sample are pushed
PushPoint(b, point, velocity) ==
    [b EXCEPT !.last_velocity = velocity,
              !.widths = Append(@, ComputeWidth(b.stroke.brush, point.pressure, velocity)),
              !.stroke.points = Append(@, point)]

\* a bug: the last segment is never replaced, only the stand-in is pushed
NextSegmentsKeepsStandIn(segs0, pts, widths, n) ==
    Append(segs0, LinearSegment(pts[n - 1].position, pts[n].position, widths[n - 1], widths[n]))

\* a bug: the first segment is replaced instead of the last
NextSegmentsReplacesFirst(segs0, pts, widths, n) ==
    Append(IF n >= 4 /\ Len(segs0) >= 2
           THEN [segs0 EXCEPT ![1] = CatmullSegment(pts[n - 3].position, pts[n - 2].position, pts[n - 1].position, pts[n].position, widths[n - 2], widths[n - 1])]
           ELSE segs0,
           LinearSegment(pts[n - 1].position, pts[n].position, widths[n - 1], widths[n]))

\* the segments of add_point for n >= 3 samples: the last segment is replaced
\* when n >= 4, then the linear stand-in is pushed.  Sample i of the crate
\* (0-based) is pts[i + 1] here.
NextSegments(segs0, pts, widths, n) ==
    Append(IF n >= 4 /\ Len(segs0) >= 2
           THEN [segs0 EXCEPT ![Len(segs0)] = CatmullSegment(pts[n - 3].position, pts[n - 2].position, pts[n - 1].position, pts[n].position, widths[n - 2], widths[n - 1])]
           ELSE segs0,
           LinearSegment(pts[n - 1].position, pts[n].position, widths[n - 1], widths[n]))

\* a bug: only the last segment is returned, whatever n is
StoreSegmentsLastOnly(b1, segs, n) ==
    [b |-> [b1 EXCEPT !.stroke = RecomputeBoundingBox([b1.stroke EXCEPT !.segments = segs])],
     ret |-> <<segs[Len(segs)]>>]

\* the end of add_point: the segments are stored, the box is recomputed and
\* the last segment (n = 2) or the last two segments are returned
StoreSegments(b1, segs, n) ==
    [b |-> [b1 EXCEPT !.stroke = RecomputeBoundingBox([b1.stroke EXCEPT !.segments = segs])],
     ret |-> IF n > 2 /\ Len(segs) >= 2 THEN <<segs[Len(segs) - 1], segs[Len(segs)]>> ELSE <<segs[Len(segs)]>>]

\* add_point after the pushes, with n samples
AddPointSegments(b1, n) ==
    IF n < 2 THEN [b |-> b1, ret |-> <<>>]
    ELSE IF n = 2
    THEN StoreSegments(b1, Append(b1.stroke.segments, LinearSegment(b1.stroke.points[1].position, b1.stroke.points[2].position, b1.widths[1], b1.widths[2])), n)
    ELSE StoreSegments(b1, NextSegments(b1.stroke.segments, b1.stroke.points, b1.widths, n), n)

\* StrokeBuilder::add_point: the builder after the call and the segments returned
BuilderAddPoint(b, point) ==
    AddPointSegments(PushPoint(b, point, IF b.stroke.points # <<>> THEN SpeedTo(Last(b.stroke.points), point) ELSE 0),
                     Len(b.stroke.points) + 1)

\* a bug: finish leaves the last segment as it is
BuilderFinishAsIs(b) == RecomputeBoundingBox(b.stroke)

\* StrokeBuilder::finish
BuilderFinish(b) ==
    LET pts == b.stroke.points
        n == Len(pts)
        segs == b.stroke.segments
        segs1 == IF n >= 4 /\ segs # <<>>
                 THEN [segs EXCEPT ![Len(segs)] = CatmullSegment(pts[n - 3].position, pts[n - 2].position, pts[n - 1].position, pts[n].position, b.widths[n - 2], b.widths[n - 1])]
                 ELSE segs
    IN  RecomputeBoundingBox([b.stroke EXCEPT !.segments = segs1])

(***************************************************************************)
(* eraser.rs: find_strokes_to_erase                                        *)
(***************************************************************************)
\* the t steps a segment is hit-tested at: 0..=20
EraserSteps == 20

\* p.distance_to(&eraser_point) <= eraser_radius + bezier.width_at(t) * 0.5
SampleHit(seg, step, eraser_point, eraser_radius) ==
    DistanceTo(Evaluate(seg, step, EraserSteps), eraser_point) <= eraser_radius + WidthAt(seg, step, EraserSteps) \div 2

SegmentHit(seg, eraser_point, eraser_radius) == \E step \in 0..EraserSteps : SampleHit(seg, step, eraser_point, eraser_radius)

\* a bug: strokes made with the eraser brush are tested like the others
StrokeHitAnyBrush(stroke, eraser_point, eraser_radius) ==
    LET eraser_bb == [min_x |-> eraser_point.x - eraser_radius, min_y |-> eraser_point.y - eraser_radius, max_x |-> eraser_point.x + eraser_radius, max_y |-> eraser_point.y + eraser_radius]
    IN  /\ IsValid(stroke.bounding_box)
        /\ Intersects(stroke.bounding_box, eraser_bb)
        /\ \E i \in 1..Len(stroke.segments) : SegmentHit(stroke.segments[i], eraser_point, eraser_radius)

StrokeHit(stroke, eraser_point, eraser_radius) ==
    LET eraser_bb == [min_x |-> eraser_point.x - eraser_radius, min_y |-> eraser_point.y - eraser_radius, max_x |-> eraser_point.x + eraser_radius, max_y |-> eraser_point.y + eraser_radius]
    IN  /\ ~stroke.is_eraser
        /\ IsValid(stroke.bounding_box)
        /\ Intersects(stroke.bounding_box, eraser_bb)
        /\ \E i \in 1..Len(stroke.segments) : SegmentHit(stroke.segments[i], eraser_point, eraser_radius)

RECURSIVE FindFrom(_, _, _, _)
FindFrom(strokes, i, eraser_point, eraser_radius) ==
    IF i > Len(strokes) THEN <<>>
    ELSE (IF StrokeHit(strokes[i], eraser_point, eraser_radius) THEN <<strokes[i].id>> ELSE <<>>)
         \o FindFrom(strokes, i + 1, eraser_point, eraser_radius)

\* a bug: every candidate is reported, hit or not
FindStrokesToEraseAll(strokes, eraser_point, eraser_radius) == [i \in 1..Len(strokes) |-> strokes[i].id]

FindStrokesToErase(strokes, eraser_point, eraser_radius) == FindFrom(strokes, 1, eraser_point, eraser_radius)

(***************************************************************************)
(* layer.rs: Layer, LayerManager                                           *)
(***************************************************************************)
LayerNew(name, id) == [id |-> id, name |-> name, visible |-> TRUE, opacity |-> 1000, strokes |-> <<>>]

LayerAddStroke(layer, stroke) == [layer EXCEPT !.strokes = Append(@, stroke)]

\* the 1-based position of the first stroke with this id, 0 when there is none
PositionOf(strokes, stroke_id) ==
    IF \E i \in 1..Len(strokes) : strokes[i].id = stroke_id
    THEN CHOOSE i \in 1..Len(strokes) : strokes[i].id = stroke_id /\ \A j \in 1..(i - 1) : strokes[j].id # stroke_id
    ELSE 0

RemoveAt(s, idx) == SubSeq(s, 1, idx - 1) \o SubSeq(s, idx + 1, Len(s))

\* a bug: the stroke is returned but stays in the layer
LayerRemoveStrokeKeeps(layer, stroke_id) ==
    LET idx == PositionOf(layer.strokes, stroke_id)
    IN  IF idx # 0
        THEN [layer |-> layer, ret |-> Some(layer.strokes[idx])]
        ELSE [layer |-> layer, ret |-> None]

\* Layer::remove_stroke: the layer after the call and the Option<Stroke> returned
LayerRemoveStroke(layer, stroke_id) ==
    LET idx == PositionOf(layer.strokes, stroke_id)
    IN  IF idx # 0
        THEN [layer |-> [layer EXCEPT !.strokes = RemoveAt(@, idx)], ret |-> Some(layer.strokes[idx])]
        ELSE [layer |-> layer, ret |-> None]

\* LayerManager::new; active_layer_index counts from 0 as in the crate, so the
\* active layer is layers[active_layer_index + 1]
LayerManagerNew(id) == [layers |-> <<LayerNew("Layer 1", id)>>, active_layer_index |-> 0]

ActiveLayer(lm) == lm.layers[lm.active_layer_index + 1]

\* a bug: the strokes of hidden layers are listed too
RECURSIVE VisibleStrokesFromAll(_, _)
VisibleStrokesFromAll(layers, i) ==
    IF i > Len(layers) THEN <<>>
    ELSE layers[i].strokes \o VisibleStrokesFromAll(layers, i + 1)

RECURSIVE VisibleStrokesFrom(_, _)
VisibleStrokesFrom(layers, i) ==
    IF i > Len(layers) THEN <<>>
    ELSE (IF layers[i].visible THEN layers[i].strokes ELSE <<>>) \o VisibleStrokesFrom(layers, i + 1)

AllVisibleStrokes(lm) == VisibleStrokesFrom(lm.layers, 1)

(***************************************************************************)
(* transform.rs: Viewport                                                  *)
(***************************************************************************)
\* the f64 operations the viewport uses: an operation on NaN gives NaN, a
\* comparison with NaN is false; a * b / den is the fixed-point product (den =
\* 1000) or quotient (b = 1000)
F64Add(a, b) == IF IsNaN(a) \/ IsNaN(b) THEN F64NaN ELSE a + b

F64Sub(a, b) == IF IsNaN(a) \/ IsNaN(b) THEN F64NaN ELSE a - b

F64MulDiv(a, b, den) == IF IsNaN(a) \/ IsNaN(b) \/ IsNaN(den) THEN F64NaN ELSE (a * b) \div den

F64Le(a, b) == ~IsNaN(a) /\ ~IsNaN(b) /\ a <= b

F64Eq(a, b) == ~IsNaN(a) /\ ~IsNaN(b) /\ a = b

\* f64::clamp: NaN stays NaN
F64Clamp(a, lo, hi) == IF IsNaN(a) THEN F64NaN ELSE Clamp(a, lo, hi)

\* Viewport::new: scale 1.0, no offset, min_scale 0.1, max_scale 10.0
ViewportNew == [scale |-> 1000, offset_x |-> 0, offset_y |-> 0, min_scale |-> 100, max_scale |-> 10000]

\* a bug: the new scale is not clamped
ViewportZoomNoClamp(v, factor, focal_screen) ==
    [v EXCEPT !.offset_x = F64Sub(focal_screen.x, F64MulDiv(F64Sub(focal_screen.x, v.offset_x), factor, 1000)),
              !.offset_y = F64Sub(focal_screen.y, F64MulDiv(F64Sub(focal_screen.y, v.offset_y), factor, 1000)),
              !.scale = F64MulDiv(v.scale, factor, 1000)]

\* a bug: the offsets follow the factor asked for, not the clamped one
ViewportZoomByFactor(v, factor, focal_screen) ==
    [v EXCEPT !.offset_x = F64Sub(focal_screen.x, F64MulDiv(F64Sub(focal_screen.x, v.offset_x), factor, 1000)),
              !.offset_y = F64Sub(focal_screen.y, F64MulDiv(F64Sub(focal_screen.y, v.offset_y), factor, 1000)),
              !.scale = F64Clamp(F64MulDiv(v.scale, factor, 1000), v.min_scale, v.max_scale)]

\* Viewport::zoom by factor (in 1/1000) toward focal_screen
ViewportZoom(v, factor, focal_screen) ==
    LET new_scale == F64Clamp(F64MulDiv(v.scale, factor, 1000), v.min_scale, v.max_scale)
        actual_factor == F64MulDiv(new_scale, 1000, v.scale)
    IN  [v EXCEPT !.offset_x = F64Sub(focal_screen.x, F64MulDiv(F64Sub(focal_screen.x, v.offset_x), actual_factor, 1000)),
                  !.offset_y = F64Sub(focal_screen.y, F64MulDiv(F64Sub(focal_screen.y, v.offset_y), actual_factor, 1000)),
                  !.scale = new_scale]

ViewportPan(v, dx, dy) == [v EXCEPT !.offset_x = F64Add(@, dx), !.offset_y = F64Add(@, dy)]

ViewportReset(v) == [v EXCEPT !.scale = 1000, !.offset_x = 0, !.offset_y = 0]

ScreenToCanvas(v, screen) == Point(F64MulDiv(F64Sub(screen.x, v.offset_x), 1000, v.scale), F64MulDiv(F64Sub(screen.y, v.offset_y), 1000, v.scale))

CanvasToScreen(v, canvas) == Point(F64Add(F64MulDiv(canvas.x, v.scale, 1000), v.offset_x), F64Add(F64MulDiv(canvas.y, v.scale, 1000), v.offset_y))

(***************************************************************************)
(* render.rs: RenderCommand, generate_*_commands                           *)
(***************************************************************************)
PathSegment(b) == [p0 |-> b.p0, cp1 |-> b.p1, cp2 |-> b.p2, p3 |-> b.p3, start_width |-> b.start_width, end_width |-> b.end_width]

PathSegments(segments) == [i \in 1..Len(segments) |-> PathSegment(segments[i])]

DrawVariableWidthPath(segments, color, is_eraser) == [cmd |-> "DrawVariableWidthPath", segments |-> segments, color |-> color, is_eraser |-> is_eraser]

RECURSIVE PathCommandsFrom(_, _)
PathCommandsFrom(strokes, i) ==
    IF i > Len(strokes) THEN <<>>
    ELSE (IF strokes[i].segments = <<>> THEN <<>>
          ELSE <<DrawVariableWidthPath(PathSegments(strokes[i].segments), strokes[i].color, strokes[i].is_eraser)>>)
         \o PathCommandsFrom(strokes, i + 1)

GenerateFullRenderCommands(strokes, bg_color, scale, translate_x, translate_y) ==
    <<[cmd |-> "Clear", color |-> bg_color], [cmd |-> "SaveState"], [cmd |-> "SetTransform", scale |-> scale, translate_x |-> translate_x, translate_y |-> translate_y]>>
    \o PathCommandsFrom(strokes, 1)
    \o <<[cmd |-> "RestoreState"]>>

GenerateIncrementalCommands(new_segments, color, is_eraser) ==
    IF new_segments = <<>> THEN <<>>
    ELSE <<DrawVariableWidthPath(PathSegments(new_segments), color, is_eraser)>>

(***************************************************************************)
(* serialization.rs: DocumentData and the serde_json codec the derives     *)
(* give.  A JSON text is modelled by the value it denotes: a number, a     *)
(* string, a boolean, an array or an object with named members; a text     *)
(* that is not JSON is JInvalid.  A struct is written as an object with    *)
(* one member per field, a unit enum variant as its name, a Uuid as its    *)
(* string form; a struct is read back member by member, a missing or       *)
(* ill-typed member is an error and an unknown member is skipped.          *)
(***************************************************************************)
JNum(n) == [t |-> "num", v |-> n]
JStr(str) == [t |-> "str", v |-> str]
JBool(b) == [t |-> "bool", v |-> b]
JArr(items) == [t |-> "arr", v |-> items]
JObj(members) == [t |-> "obj", v |-> members]
JInvalid == [t |-> "invalid"]

\* the ids Uuid::new_v4 hands out in the model and the ids of the documents a host loads
UuidSpace == 0..31

\* Uuid as a string
UuidToString(id) == ToString(id)

PointToJson(pt) == JObj([x |-> JNum(pt.x), y |-> JNum(pt.y)])

ColorToJson(c) == JObj([r |-> JNum(c.r), g |-> JNum(c.g), b |-> JNum(c.b), a |-> JNum(c.a)])

StrokePointToJson(sp) == JObj([position |-> PointToJson(sp.position), pressure |-> JNum(sp.pressure), timestamp |-> JNum(sp.timestamp)])

BoundingBoxToJson(bb) == JObj([min_x |-> JNum(bb.min_x), min_y |-> JNum(bb.min_y), max_x |-> JNum(bb.max_x), max_y |-> JNum(bb.max_y)])

BrushToJson(brush) ==
    JObj([brush_type |-> JStr(brush.brush_type), color |-> ColorToJson(brush.color), base_width |-> JNum(brush.base_width),
          min_width_factor |-> JNum(brush.min_width_factor), max_width_factor |-> JNum(brush.max_width_factor),
          pressure_sensitivity |-> JNum(brush.pressure_sensitivity), velocity_sensitivity |-> JNum(brush.velocity_sensitivity),
          smoothing |-> JNum(brush.smoothing)])

SegmentToJson(seg) ==
    JObj([p0 |-> PointToJson(seg.p0), p1 |-> PointToJson(seg.p1), p2 |-> PointToJson(seg.p2), p3 |-> PointToJson(seg.p3),
          start_width |-> JNum(seg.start_width), end_width |-> JNum(seg.end_width)])

StrokeToJson(stroke) ==
    JObj([id |-> JStr(UuidToString(stroke.id)), points |-> JArr([i \in 1..Len(stroke.points) |-> StrokePointToJson(stroke.points[i])]),
          segments |-> JArr([i \in 1..Len(stroke.segments) |-> SegmentToJson(stroke.segments[i])]), color |-> ColorToJson(stroke.color),
          brush |-> BrushToJson(stroke.brush), bounding_box |-> BoundingBoxToJson(stroke.bounding_box),
          is_eraser |-> JBool(stroke.is_eraser)])

LayerToJson(layer) ==
    JObj([id |-> JStr(UuidToString(layer.id)), name |-> JStr(layer.name), visible |-> JBool(layer.visible),
          opacity |-> JNum(layer.opacity), strokes |-> JArr([i \in 1..Len(layer.strokes) |-> StrokeToJson(layer.strokes[i])])])

DocumentData(version, width, height, background_color, layers) == [version |-> version, width |-> width, height |-> height, background_color |-> background_color, layers |-> layers]

\* DocumentData::save_to_json
SaveToJson(data) ==
    JObj([version |-> JNum(data.version), width |-> JNum(data.width), height |-> JNum(data.height),
          background_color |-> ColorToJson(data.background_color), layers |-> JArr([i \in 1..Len(data.layers) |-> LayerToJson(data.layers[i])])])

\* ---- reading: Ok says whether a value reads as the type, From reads it ----
IsNum(j) == j.t = "num"
IsBool(j) == j.t = "bool"
IsString(j) == j.t = "str"

\* a u32: a whole number that is not negative (the numbers of the model stay
\* far below 2^32)
IsU32(j) == j.t = "num" /\ j.v >= 0

\* the object j has a member named k
Has(j, k) == k \in DOMAIN j.v

UuidOk(j) == j.t = "str" /\ \E id \in UuidSpace : UuidToString(id) = j.v

UuidFrom(j) == CHOOSE id \in UuidSpace : UuidToString(id) = j.v

BrushTypeOk(j) == j.t = "str" /\ j.v \in {"Pen", "Highlighter", "Eraser"}

PointOk(j) == j.t = "obj" /\ Has(j, "x") /\ IsNum(j.v.x) /\ Has(j, "y") /\ IsNum(j.v.y)

PointFrom(j) == Point(j.v.x.v, j.v.y.v)

ColorOk(j) == j.t = "obj" /\ Has(j, "r") /\ IsNum(j.v.r) /\ Has(j, "g") /\ IsNum(j.v.g) /\ Has(j, "b") /\ IsNum(j.v.b) /\ Has(j, "a") /\ IsNum(j.v.a)

ColorFrom(j) == Color(j.v.r.v, j.v.g.v, j.v.b.v, j.v.a.v)

StrokePointOk(j) == j.t = "obj" /\ Has(j, "position") /\ PointOk(j.v.position) /\ Has(j, "pressure") /\ IsNum(j.v.pressure) /\ Has(j, "timestamp") /\ IsNum(j.v.timestamp)

StrokePointFrom(j) == [position |-> PointFrom(j.v.position), pressure |-> j.v.pressure.v, timestamp |-> j.v.timestamp.v]

BoundingBoxOk(j) == j.t = "obj" /\ Has(j, "min_x") /\ IsNum(j.v.min_x) /\ Has(j, "min_y") /\ IsNum(j.v.min_y) /\ Has(j, "max_x") /\ IsNum(j.v.max_x) /\ Has(j, "max_y") /\ IsNum(j.v.max_y)

BoundingBoxFrom(j) == [min_x |-> j.v.min_x.v, min_y |-> j.v.min_y.v, max_x |-> j.v.max_x.v, max_y |-> j.v.max_y.v]

BrushOk(j) ==
    /\ j.t = "obj"
    /\ Has(j, "brush_type") /\ BrushTypeOk(j.v.brush_type)
    /\ Has(j, "color") /\ ColorOk(j.v.color)
    /\ Has(j, "base_width") /\ IsNum(j.v.base_width)
    /\ Has(j, "min_width_factor") /\ IsNum(j.v.min_width_factor)
    /\ Has(j, "max_width_factor") /\ IsNum(j.v.max_width_factor)
    /\ Has(j, "pressure_sensitivity") /\ IsNum(j.v.pressure_sensitivity)
    /\ Has(j, "velocity_sensitivity") /\ IsNum(j.v.velocity_sensitivity)
    /\ Has(j, "smoothing") /\ IsNum(j.v.smoothing)

BrushFrom(j) ==
    [brush_type |-> j.v.brush_type.v, color |-> ColorFrom(j.v.color), base_width |-> j.v.base_width.v,
     min_width_factor |-> j.v.min_width_factor.v, max_width_factor |-> j.v.max_width_factor.v,
     pressure_sensitivity |-> j.v.pressure_sensitivity.v, velocity_sensitivity |-> j.v.velocity_sensitivity.v,
     smoothing |-> j.v.smoothing.v]

SegmentOk(j) ==
    /\ j.t = "obj"
    /\ Has(j, "p0") /\ PointOk(j.v.p0) /\ Has(j, "p1") /\ PointOk(j.v.p1) /\ Has(j, "p2") /\ PointOk(j.v.p2) /\ Has(j, "p3") /\ PointOk(j.v.p3)
    /\ Has(j, "start_width") /\ IsNum(j.v.start_width) /\ Has(j, "end_width") /\ IsNum(j.v.end_width)

SegmentFrom(j) == BezierSegment(PointFrom(j.v.p0), PointFrom(j.v.p1), PointFrom(j.v.p2), PointFrom(j.v.p3), j.v.start_width.v, j.v.end_width.v)

StrokePointsOk(j) == j.t = "arr" /\ \A i \in 1..Len(j.v) : StrokePointOk(j.v[i])

SegmentsOk(j) == j.t = "arr" /\ \A i \in 1..Len(j.v) : SegmentOk(j.v[i])

StrokeOk(j) ==
    /\ j.t = "obj"
    /\ Has(j, "id") /\ UuidOk(j.v.id)
    /\ Has(j, "points") /\ StrokePointsOk(j.v.points)
    /\ Has(j, "segments") /\ SegmentsOk(j.v.segments)
    /\ Has(j, "color") /\ ColorOk(j.v.color)
    /\ Has(j, "brush") /\ BrushOk(j.v.brush)
    /\ Has(j, "bounding_box") /\ BoundingBoxOk(j.v.bounding_box)
    /\ Has(j, "is_eraser") /\ IsBool(j.v.is_eraser)

\* a bug: the segments of a stroke are not read back
StrokeFromJsonNoSegments(j) ==
    [id |-> UuidFrom(j.v.id), points |-> [i \in 1..Len(j.v.points.v) |-> StrokePointFrom(j.v.points.v[i])], segments |-> <<>>,
     color |-> ColorFrom(j.v.color), brush |-> BrushFrom(j.v.brush), bounding_box |-> BoundingBoxFrom(j.v.bounding_box),
     is_eraser |-> j.v.is_eraser.v]

StrokeFromJson(j) ==
    [id |-> UuidFrom(j.v.id), points |-> [i \in 1..Len(j.v.points.v) |-> StrokePointFrom(j.v.points.v[i])], segments |-> [i \in 1..Len(j.v.segments.v) |-> SegmentFrom(j.v.segments.v[i])],
     color |-> ColorFrom(j.v.color), brush |-> BrushFrom(j.v.brush), bounding_box |-> BoundingBoxFrom(j.v.bounding_box),
     is_eraser |-> j.v.is_eraser.v]

StrokesOk(j) == j.t = "arr" /\ \A i \in 1..Len(j.v) : StrokeOk(j.v[i])

LayerOk(j) ==
    /\ j.t = "obj"
    /\ Has(j, "id") /\ UuidOk(j.v.id)
    /\ Has(j, "name") /\ IsString(j.v.name)
    /\ Has(j, "visible") /\ IsBool(j.v.visible)
    /\ Has(j, "opacity") /\ IsNum(j.v.opacity)
    /\ Has(j, "strokes") /\ StrokesOk(j.v.strokes)

LayerFromJson(j) == [id |-> UuidFrom(j.v.id), name |-> j.v.name.v, visible |-> j.v.visible.v, opacity |-> j.v.opacity.v, strokes |-> [i \in 1..Len(j.v.strokes.v) |-> StrokeFromJson(j.v.strokes.v[i])]]

LayersOk(j) == j.t = "arr" /\ \A i \in 1..Len(j.v) : LayerOk(j.v[i])

DocumentOk(j) ==
    /\ j.t = "obj"
    /\ Has(j, "version") /\ IsU32(j.v.version)
    /\ Has(j, "width") /\ IsNum(j.v.width)
    /\ Has(j, "height") /\ IsNum(j.v.height)
    /\ Has(j, "background_color") /\ ColorOk(j.v.background_color)
    /\ Has(j, "layers") /\ LayersOk(j.v.layers)

\* DocumentData::load_from_json: Ok(DocumentData) or Err(serde_json::Error)
LoadFromJson(j) ==
    IF DocumentOk(j)
    THEN [ok |-> TRUE, val |-> DocumentData(j.v.version.v, j.v.width.v, j.v.height.v, ColorFrom(j.v.background_color), [i \in 1..Len(j.v.layers.v) |-> LayerFromJson(j.v.layers.v[i])])]
    ELSE [ok |-> FALSE, err |-> "serde_json::Error"]

(***************************************************************************)
(* canvas.rs: DrawEngine.  Every operation gives the engine after the call *)
(* (e) and what the call returned (ret).                                   *)
(***************************************************************************)
\* History::default()
DefaultMaxSize == 100

DrawEngineNew(width, height, layer_id) == [layer_manager |-> LayerManagerNew(layer_id), viewport |-> ViewportNew, history |-> HistoryNew(DefaultMaxSize), background_color |-> ColorWhite, canvas_width |-> width, canvas_height |-> height, current_brush |-> BrushDefault, active_builder |-> None]

FullRender(e) == GenerateFullRenderCommands(AllVisibleStrokes(e.layer_manager), e.background_color, e.viewport.scale, e.viewport.offset_x, e.viewport.offset_y)

StrokeCount(e) ==
    LET RECURSIVE Sum(_)
        Sum(i) == IF i > Len(e.layer_manager.layers) THEN 0 ELSE Len(e.layer_manager.layers[i].strokes) + Sum(i + 1)
    IN  Sum(1)

SetBrush(e, brush) == [e EXCEPT !.current_brush = brush]

\* a bug: a begin_stroke made while a stroke is in flight goes on with that stroke
BeginStrokeKeepsBuilder(e, screen_x, screen_y, pressure, timestamp, id) ==
    LET canvas_point == ScreenToCanvas(e.viewport, Point(screen_x, screen_y))
        point == StrokePoint(canvas_point.x, canvas_point.y, pressure, timestamp)
        started == BuilderAddPoint(IF e.active_builder.some THEN e.active_builder.val ELSE StrokeBuilderNew(e.current_brush, id), point).b
    IN  [e |-> [e EXCEPT !.active_builder = Some(started)], ret |-> <<>>]

\* a bug: the stroke is put into the active layer as soon as it begins
BeginStrokeIntoLayer(e, screen_x, screen_y, pressure, timestamp, id) ==
    LET canvas_point == ScreenToCanvas(e.viewport, Point(screen_x, screen_y))
        point == StrokePoint(canvas_point.x, canvas_point.y, pressure, timestamp)
        started == BuilderAddPoint(StrokeBuilderNew(e.current_brush, id), point).b
    IN  [e |-> [e EXCEPT !.active_builder = Some(started),
                         !.layer_manager.layers[e.layer_manager.active_layer_index + 1] = LayerAddStroke(@, started.stroke)],
         ret |-> <<>>]

\* begin_stroke; id is the Uuid::new_v4 of the new stroke
BeginStroke(e, screen_x, screen_y, pressure, timestamp, id) ==
    LET canvas_point == ScreenToCanvas(e.viewport, Point(screen_x, screen_y))
        point == StrokePoint(canvas_point.x, canvas_point.y, pressure, timestamp)
        started == BuilderAddPoint(StrokeBuilderNew(e.current_brush, id), point).b
    IN  [e |-> [e EXCEPT !.active_builder = Some(started)], ret |-> <<>>]

\* a bug: the eraser's segments are drawn like a pen's
AddPointToBuilderDrawsEraser(e, r) ==
    [e |-> [e EXCEPT !.active_builder = Some(r.b)],
     ret |-> GenerateIncrementalCommands(r.ret, e.current_brush.color, e.current_brush.brush_type = "Eraser")]

\* add_point with an active builder, r being what StrokeBuilder::add_point gave
AddPointToBuilder(e, r) ==
    [e |-> [e EXCEPT !.active_builder = Some(r.b)],
     ret |-> IF e.current_brush.brush_type = "Eraser" THEN <<>>
             ELSE GenerateIncrementalCommands(r.ret, e.current_brush.color, FALSE)]

\* a bug: without an active builder the sample starts a stroke
AddPointStartsStroke(e, screen_x, screen_y, pressure, timestamp) ==
    LET canvas_point == ScreenToCanvas(e.viewport, Point(screen_x, screen_y))
        point == StrokePoint(canvas_point.x, canvas_point.y, pressure, timestamp)
    IN  IF e.active_builder.some
        THEN AddPointToBuilder(e, BuilderAddPoint(e.active_builder.val, point))
        ELSE [e |-> [e EXCEPT !.active_builder = Some(BuilderAddPoint(StrokeBuilderNew(e.current_brush, 0), point).b)],
              ret |-> <<>>]

AddPoint(e, screen_x, screen_y, pressure, timestamp) ==
    LET canvas_point == ScreenToCanvas(e.viewport, Point(screen_x, screen_y))
        point == StrokePoint(canvas_point.x, canvas_point.y, pressure, timestamp)
    IN  IF e.active_builder.some
        THEN AddPointToBuilder(e, BuilderAddPoint(e.active_builder.val, point))
        ELSE [e |-> e, ret |-> <<>>]

\* the ids of ids that erased does not hold yet, appended to erased in order
RECURSIVE AppendNew(_, _, _)
AppendNew(erased, ids, i) ==
    IF i > Len(ids) THEN erased
    ELSE AppendNew(IF \E j \in 1..Len(erased) : erased[j] = ids[i] THEN erased ELSE Append(erased, ids[i]), ids, i + 1)

\* a bug: only the first sample of the eraser path is tested
CollectErasedFirstSample(erased, strokes, points, brush, i) ==
    IF points = <<>> THEN erased
    ELSE AppendNew(erased, FindStrokesToErase(strokes, points[1].position, ComputeWidth(brush, points[1].pressure, 0) \div 2), 1)

\* the first loop of the eraser branch of end_stroke, from sample i on
RECURSIVE CollectErased(_, _, _, _, _)
CollectErased(erased, strokes, points, brush, i) ==
    IF i > Len(points) THEN erased
    ELSE LET width == ComputeWidth(brush, points[i].pressure, 0)
             ids == FindStrokesToErase(strokes, points[i].position, width \div 2)
         IN  CollectErased(AppendNew(erased, ids, 1), strokes, points, brush, i + 1)

\* the second loop of the eraser branch of end_stroke, from erased id i on
RECURSIVE RemoveErased(_, _, _)
RemoveErased(e, erased_ids, i) ==
    IF i > Len(erased_ids) THEN e
    ELSE LET layer_idx == e.layer_manager.active_layer_index
             r == LayerRemoveStroke(ActiveLayer(e.layer_manager), erased_ids[i])
         IN  RemoveErased(IF r.ret.some
                          THEN [e EXCEPT !.layer_manager.layers[layer_idx + 1] = r.layer,
                                         !.history = HistoryPush(@, RemoveStroke(layer_idx, r.ret.val))]
                          ELSE e,
                          erased_ids, i + 1)

\* a bug: a pen stroke is added to the layer without a history entry
CommitStrokeNoHistory(e, stroke) ==
    IF e.current_brush.brush_type = "Eraser"
    THEN RemoveErased(e, CollectErased(<<>>, ActiveLayer(e.layer_manager).strokes, stroke.points, e.current_brush, 1), 1)
    ELSE IF stroke.segments # <<>>
    THEN [e EXCEPT !.layer_manager.layers[e.layer_manager.active_layer_index + 1] = LayerAddStroke(@, stroke)]
    ELSE e

\* a bug: the brush is not looked at, so an eraser stroke is added like a pen stroke
CommitStrokeKeepsEraser(e, stroke) ==
    IF stroke.segments # <<>>
    THEN LET layer_idx == e.layer_manager.active_layer_index
         IN  [e EXCEPT !.history = HistoryPush(@, AddStroke(layer_idx, stroke)),
                       !.layer_manager.layers[layer_idx + 1] = LayerAddStroke(@, stroke)]
    ELSE e

\* a bug: a pen stroke without segments is committed like any other
CommitStrokeAddsEmpty(e, stroke) ==
    IF e.current_brush.brush_type = "Eraser"
    THEN RemoveErased(e, CollectErased(<<>>, ActiveLayer(e.layer_manager).strokes, stroke.points, e.current_brush, 1), 1)
    ELSE LET layer_idx == e.layer_manager.active_layer_index
         IN  [e EXCEPT !.history = HistoryPush(@, AddStroke(layer_idx, stroke)),
                       !.layer_manager.layers[layer_idx + 1] = LayerAddStroke(@, stroke)]

\* what end_stroke does with the finished stroke
CommitStroke(e, stroke) ==
    IF e.current_brush.brush_type = "Eraser"
    THEN RemoveErased(e, CollectErased(<<>>, ActiveLayer(e.layer_manager).strokes, stroke.points, e.current_brush, 1), 1)
    ELSE IF stroke.segments # <<>>
    THEN LET layer_idx == e.layer_manager.active_layer_index
         IN  [e EXCEPT !.history = HistoryPush(@, AddStroke(layer_idx, stroke)),
                       !.layer_manager.layers[layer_idx + 1] = LayerAddStroke(@, stroke)]
    ELSE e

\* self.full_render() at the end of end_stroke, undo and redo
Rendered(e) == [e |-> e, ret |-> FullRender(e)]

\* a bug: end_stroke commits the stroke and leaves the builder in place
EndStrokeKeepsBuilder(e) ==
    Rendered(IF e.active_builder.some
             THEN CommitStroke(e, BuilderFinish(e.active_builder.val))
             ELSE e)

EndStroke(e) ==
    Rendered(IF e.active_builder.some
             THEN CommitStroke([e EXCEPT !.active_builder = None], BuilderFinish(e.active_builder.val))
             ELSE e)

\* a bug: a RemoveStroke action is not applied
ApplyHistoryActionNoRemove(e, action) ==
    IF action.layer_index + 1 <= Len(e.layer_manager.layers) /\ action.tag = "AddStroke"
    THEN [e EXCEPT !.layer_manager.layers[action.layer_index + 1] = LayerAddStroke(@, action.stroke)]
    ELSE e

\* a bug: an AddStroke action is not applied
ApplyHistoryActionNoAdd(e, action) ==
    IF action.layer_index + 1 <= Len(e.layer_manager.layers) /\ action.tag = "RemoveStroke"
    THEN [e EXCEPT !.layer_manager.layers[action.layer_index + 1] = LayerRemoveStroke(@, action.stroke.id).layer]
    ELSE e

ApplyHistoryAction(e, action) ==
    IF action.layer_index + 1 <= Len(e.layer_manager.layers)
    THEN IF action.tag = "AddStroke"
         THEN [e EXCEPT !.layer_manager.layers[action.layer_index + 1] = LayerAddStroke(@, action.stroke)]
         ELSE [e EXCEPT !.layer_manager.layers[action.layer_index + 1] = LayerRemoveStroke(@, action.stroke.id).layer]
    ELSE e

\* a bug: undo moves the history and leaves the layers alone
UndoNoApply(e) == Rendered([e EXCEPT !.history = HistoryUndo(e.history).h])

\* undo and redo once the History has answered with r
ApplyAnswer(e, r) ==
    IF r.ret.some
    THEN ApplyHistoryAction([e EXCEPT !.history = r.h], r.ret.val)
    ELSE [e EXCEPT !.history = r.h]

Undo(e) == Rendered(ApplyAnswer(e, HistoryUndo(e.history)))

Redo(e) == Rendered(ApplyAnswer(e, HistoryRedo(e.history)))

Zoom(e, factor, focal_x, focal_y) == Rendered([e EXCEPT !.viewport = ViewportZoom(@, factor, Point(focal_x, focal_y))])

Pan(e, dx, dy) == Rendered([e EXCEPT !.viewport = ViewportPan(@, dx, dy)])

ResetViewport(e) == Rendered([e EXCEPT !.viewport = ViewportReset(@)])

\* save: Ok(String); the engine is borrowed and stays as it is
Save(e) == [e |-> e, ret |-> [ok |-> TRUE, val |-> SaveToJson(DocumentData(1, e.canvas_width, e.canvas_height, e.background_color, e.layer_manager.layers))]]

\* load once the document has been read; id is the Uuid::new_v4 of the
\* default layer installed when the document has no layer
Install(e, data, id) ==
    [e EXCEPT !.canvas_width = data.width,
              !.canvas_height = data.height,
              !.background_color = data.background_color,
              !.layer_manager = IF data.layers = <<>> THEN LayerManagerNew(id) ELSE [layers |-> data.layers, active_layer_index |-> 0],
              !.history = HistoryClear(@)]

\* a bug: the history is cleared before the document is read
LoadClearsFirst(e, json, id) ==
    IF LoadFromJson(json).ok
    THEN [e |-> Install(e, LoadFromJson(json).val, id), ret |-> [ok |-> TRUE]]
    ELSE [e |-> [e EXCEPT !.history = HistoryClear(@)], ret |-> [ok |-> FALSE, err |-> LoadFromJson(json).err]]

\* a bug: the history survives a load
LoadKeepsHistory(e, json, id) ==
    IF LoadFromJson(json).ok
    THEN [e |-> [Install(e, LoadFromJson(json).val, id) EXCEPT !.history = e.history], ret |-> [ok |-> TRUE]]
    ELSE [e |-> e, ret |-> [ok |-> FALSE, err |-> LoadFromJson(json).err]]

\* a bug: a document without layers leaves the engine without layers
LoadKeepsNoLayers(e, json, id) ==
    IF LoadFromJson(json).ok
    THEN [e |-> [Install(e, LoadFromJson(json).val, id) EXCEPT !.layer_manager = [layers |-> LoadFromJson(json).val.layers, active_layer_index |-> 0]], ret |-> [ok |-> TRUE]]
    ELSE [e |-> e, ret |-> [ok |-> FALSE, err |-> LoadFromJson(json).err]]

\* a bug: a successful load also drops the stroke in flight
LoadDropsBuilder(e, json, id) ==
    IF LoadFromJson(json).ok
    THEN [e |-> [Install(e, LoadFromJson(json).val, id) EXCEPT !.active_builder = None], ret |-> [ok |-> TRUE]]
    ELSE [e |-> e, ret |-> [ok |-> FALSE, err |-> LoadFromJson(json).err]]

\* load: Ok(()) or Err(String)
Load(e, json, id) ==
    IF LoadFromJson(json).ok
    THEN [e |-> Install(e, LoadFromJson(json).val, id), ret |-> [ok |-> TRUE]]
    ELSE [e |-> e, ret |-> [ok |-> FALSE, err |-> LoadFromJson(json).err]]

(***************************************************************************)
(* The engine facade: DrawEngine::new(1920, 1080), then any calls of       *)
(* set_brush, begin_stroke, add_point, end_stroke, undo and redo.          *)
(***************************************************************************)
\* the samples (screen x, screen y, pressure, timestamp) a host sends: three
\* points on a line, 202.5, 360.0 and 562.5 pixels apart
Samples == {<<0, 0, 500, 0>>, <<1215, 1620, 1000, 16>>, <<3375, 4500, 500, 32>>}

\* the brushes a host sets: pen(black, 2.0) and eraser(20.0)
Brushes == {BrushDefault, BrushEraser(200)}

\* every layer's ordered stroke list
LayerStrokes(e) == [i \in 1..Len(e.layer_manager.layers) |-> e.layer_manager.layers[i].strokes]

\* the strokes a sequence holds, as a set
StrokeSet(strokes) == {strokes[i] : i \in 1..Len(strokes)}

\* the actions a call has pushed on the undo stack (no call evicts here)
Pushed(e, e1) == SubSeq(e1.history.undo_stack, Len(e.history.undo_stack) + 1, Len(e1.history.undo_stack))

\* ---- the run of calls made on the fresh engine ----
FreshRunOff == [phase |-> "off", n |-> 0, u |-> 0, r |-> 0]

\* name is the call, e the engine before it and e1 the engine after it
FreshRunAfter(run, name, e, e1) ==
    IF name \in {"set_brush", "begin_stroke", "add_point"}
    THEN IF run.phase = "commit" THEN run ELSE FreshRunOff
    ELSE IF name = "end_stroke"
    THEN IF run.phase # "commit" THEN FreshRunOff
         ELSE IF e1.history = e.history THEN run
         ELSE IF Len(Pushed(e, e1)) = 1 /\ Pushed(e, e1)[1].tag = "AddStroke" THEN [run EXCEPT !.n = @ + 1]
         ELSE FreshRunOff
    ELSE IF name = "undo"
    THEN IF run.phase = "commit" /\ run.n >= 1 THEN [run EXCEPT !.phase = "undo", !.u = 1]
         ELSE IF run.phase = "undo" /\ run.u < run.n THEN [run EXCEPT !.u = @ + 1]
         ELSE FreshRunOff
    ELSE IF run.phase = "undo" /\ run.u = run.n THEN [run EXCEPT !.phase = "redo", !.r = 1]
         ELSE IF run.phase = "redo" /\ run.r < run.n THEN [run EXCEPT !.r = @ + 1]
         ELSE FreshRunOff

\* ---- the latest run of successful undos made between strokes ----
UndoRunIdle == [phase |-> "idle", snaps |-> <<>>, r |-> 0]

UndoRunAfter(run, name, e, e1) ==
    IF name = "undo" /\ can_undo(e.history) /\ ~e.active_builder.some
    THEN [phase |-> "undo", snaps |-> Append(IF run.phase = "undo" THEN run.snaps ELSE <<>>, LayerStrokes(e)), r |-> 0]
    ELSE IF name = "redo" /\ can_redo(e.history) /\ run.phase \in {"undo", "redo"} /\ run.r < Len(run.snaps)
    THEN [run EXCEPT !.phase = "redo", !.r = @ + 1]
    ELSE UndoRunIdle

\* ---- the latest eraser stroke and the undos made right after it ----
EraseRunNone == [k |-> 0, j |-> 0, before |-> <<>>, after |-> <<>>]

EraseRunAfter(run, name, e, e1) ==
    IF name = "end_stroke" /\ e.active_builder.some /\ e.current_brush.brush_type = "Eraser" /\ Len(Pushed(e, e1)) >= 1
    THEN [k |-> Len(Pushed(e, e1)), j |-> 0, before |-> LayerStrokes(e), after |-> LayerStrokes(e1)]
    ELSE IF name = "undo" /\ run.k >= 1 /\ run.j < run.k
    THEN [run EXCEPT !.j = @ + 1]
    ELSE EraseRunNone

CommitRunNone == [phase |-> "none", before |-> <<>>]

\* an end_stroke that pushes exactly one action starts a run (before: the
\* strokes of the active layer before it); an undo right after it completes
\* the run; any other call ends it
CommitRunAfter(run, name, e, e1) ==
    IF name = "end_stroke" /\ Len(Pushed(e, e1)) = 1
    THEN [phase |-> "committed", before |-> ActiveLayer(e.layer_manager).strokes]
    ELSE IF name = "undo" /\ run.phase = "committed"
    THEN [run EXCEPT !.phase = "undone"]
    ELSE CommitRunNone

Ghosts(name, e, e1) ==
    /\ op' = name
    /\ pre' = e
    /\ fresh_run' = FreshRunAfter(fresh_run, name, e, e1)
    /\ undo_run' = UndoRunAfter(undo_run, name, e, e1)
    /\ erase_run' = EraseRunAfter(erase_run, name, e, e1)
    /\ brush_set_mid_stroke' = (brush_set_mid_stroke \/ (name = "set_brush" /\ e.active_builder.some))
    /\ arg' = None
    /\ abandoned' = IF name = "begin_stroke" /\ e.active_builder.some THEN abandoned \cup {e.active_builder.val.stroke.id} ELSE abandoned
    /\ stroke_open' = IF name = "begin_stroke" THEN TRUE ELSE IF name = "end_stroke" THEN FALSE ELSE stroke_open
    /\ commit_run' = CommitRunAfter(commit_run, name, e, e1)

\* the state after construction, with the engine e
EInitWith(e) ==
    /\ engine = e
    /\ next_uuid = 1
    /\ op = "new"
    /\ ret = <<>>
    /\ pre = engine
    /\ fresh_run = [phase |-> "commit", n |-> 0, u |-> 0, r |-> 0]
    /\ undo_run = UndoRunIdle
    /\ erase_run = EraseRunNone
    /\ brush_set_mid_stroke = FALSE
    /\ next_layer_uuid = 1
    /\ arg = None
    /\ abandoned = {}
    /\ since_begin = <<>>
    /\ stroke_open = FALSE
    /\ commit_run = CommitRunNone

EInit == EInitWith(DrawEngineNew(19200, 10800, 0))

DoSetBrush ==
    /\ \E b \in Brushes : engine' = SetBrush(engine, b)
    /\ ret' = <<>>
    /\ Ghosts("set_brush", engine, engine')
    /\ UNCHANGED <<next_uuid, next_layer_uuid, since_begin, not_engine>>

DoBeginStroke ==
    /\ next_uuid <= MaxStrokes
    /\ \E s \in Samples :
         /\ \E r \in {BeginStroke(engine, s[1], s[2], s[3], s[4], next_uuid)} : engine' = r.e /\ ret' = r.ret
         /\ since_begin' = <<s>>
    /\ next_uuid' = next_uuid + 1
    /\ Ghosts("begin_stroke", engine, engine')
    /\ UNCHANGED <<next_layer_uuid, not_engine>>

\* a stroke takes at most MaxPoints samples, with increasing timestamps
DoAddPoint ==
    /\ engine.active_builder.some => Len(engine.active_builder.val.stroke.points) < MaxPoints
    /\ \E s \in Samples :
         /\ engine.active_builder.some => s[4] > Last(engine.active_builder.val.stroke.points).timestamp
         /\ \E r \in {AddPoint(engine, s[1], s[2], s[3], s[4])} : engine' = r.e /\ ret' = r.ret
         /\ since_begin' = IF stroke_open THEN Append(since_begin, s) ELSE since_begin
    /\ Ghosts("add_point", engine, engine')
    /\ UNCHANGED <<next_uuid, next_layer_uuid, not_engine>>

DoEndStroke ==
    /\ \E r \in {EndStroke(engine)} : engine' = r.e /\ ret' = r.ret
    /\ Ghosts("end_stroke", engine, engine')
    /\ since_begin' = <<>>
    /\ UNCHANGED <<next_uuid, next_layer_uuid, not_engine>>

DoUndo ==
    /\ \E r \in {Undo(engine)} : engine' = r.e /\ ret' = r.ret
    /\ Ghosts("undo", engine, engine')
    /\ UNCHANGED <<next_uuid, next_layer_uuid, since_begin, not_engine>>

DoRedo ==
    /\ \E r \in {Redo(engine)} : engine' = r.e /\ ret' = r.ret
    /\ Ghosts("redo", engine, engine')
    /\ UNCHANGED <<next_uuid, next_layer_uuid, since_begin, not_engine>>

ENext == DoSetBrush \/ DoBeginStroke \/ DoAddPoint \/ DoEndStroke \/ DoUndo \/ DoRedo

(***************************************************************************)
(* The whole facade: the calls above with fewer strokes, and zoom, pan,    *)
(* reset_viewport, save and load.                                          *)
(***************************************************************************)
\* the zoom factor a host asks for, toward the screen origin: x100, which
\* max_scale clamps to x10
ZoomFactors == {100000}

\* the pans (dx, dy) a host asks for
Pans == {<<500, -200>>}

\* ---- the documents a host loads besides what save gave ----
\* a two-sample pen stroke, a one-sample stroke (no segment) and a
\* two-sample wide pen stroke
DocStrokeA == BuilderFinish(BuilderAddPoint(BuilderAddPoint(StrokeBuilderNew(BrushDefault, 11), StrokePoint(0, 0, 500, 0)).b, StrokePoint(300, 400, 1000, 16)).b)

DocStrokeB == BuilderFinish(BuilderAddPoint(StrokeBuilderNew(BrushDefault, 12), StrokePoint(50, 50, 500, 0)).b)

DocStrokeC == BuilderFinish(BuilderAddPoint(BuilderAddPoint(StrokeBuilderNew(BrushPen(ColorBlack, 40), 13), StrokePoint(600, 0, 500, 0)).b, StrokePoint(600, 800, 500, 16)).b)

\* a hidden layer under a visible one
DocLayers ==
    <<[LayerNew("Hidden", 21) EXCEPT !.visible = FALSE, !.strokes = <<DocStrokeA>>],
      [LayerNew("Ink", 22) EXCEPT !.strokes = <<DocStrokeB, DocStrokeC>>]>>

DocTwoLayers == SaveToJson(DocumentData(1, 8000, 6000, ColorBlack, DocLayers))

DocNoLayers == SaveToJson(DocumentData(1, 8000, 6000, ColorBlack, <<>>))

\* the same two layers in a document of version 2
DocVersion2 == SaveToJson(DocumentData(2, 8000, 6000, ColorBlack, DocLayers))

\* the two-layer document without its member width
DocNoWidth == JObj([k \in (DOMAIN DocTwoLayers.v) \ {"width"} |-> DocTwoLayers.v[k]])

\* the documents a host may give to load: the five above and what save returns now
Documents(e) == <<DocTwoLayers, DocNoLayers, DocVersion2, DocNoWidth, JInvalid, Save(e).ret.val>>

\* a call that is not part of a run of commits, undos and redos ends the run
GhostsOutside(name, e) ==
    /\ op' = name
    /\ pre' = e
    /\ fresh_run' = FreshRunOff
    /\ undo_run' = UndoRunIdle
    /\ erase_run' = EraseRunNone
    /\ commit_run' = CommitRunNone
    /\ UNCHANGED <<brush_set_mid_stroke, abandoned, since_begin, stroke_open>>

\* the host draws at scale 1 (panned or not): the canvas coordinates of its
\* samples then stay small enough for their squares to be integers TLC can hold
FBeginStroke ==
    /\ next_uuid <= MaxFacadeStrokes
    /\ engine.viewport.scale = 1000
    /\ DoBeginStroke

FAddPoint ==
    /\ engine.viewport.scale = 1000
    /\ engine.active_builder.some => Len(engine.active_builder.val.stroke.points) < MaxFacadePoints
    /\ DoAddPoint

DoZoom ==
    /\ \E factor \in ZoomFactors :
         \E r \in {Zoom(engine, factor, 0, 0)} : engine' = r.e /\ ret' = r.ret
    /\ GhostsOutside("zoom", engine)
    /\ arg' = None
    /\ UNCHANGED <<next_uuid, next_layer_uuid, not_engine>>

DoPan ==
    /\ \E d \in Pans :
         /\ Abs(engine.viewport.offset_x + d[1]) <= MaxPan
         /\ Abs(engine.viewport.offset_y + d[2]) <= MaxPan
         /\ \E r \in {Pan(engine, d[1], d[2])} : engine' = r.e /\ ret' = r.ret
    /\ GhostsOutside("pan", engine)
    /\ arg' = None
    /\ UNCHANGED <<next_uuid, next_layer_uuid, not_engine>>

DoResetViewport ==
    /\ \E r \in {ResetViewport(engine)} : engine' = r.e /\ ret' = r.ret
    /\ GhostsOutside("reset_viewport", engine)
    /\ arg' = None
    /\ UNCHANGED <<next_uuid, next_layer_uuid, not_engine>>

DoSave ==
    /\ \E r \in {Save(engine)} : engine' = r.e /\ ret' = r.ret
    /\ GhostsOutside("save", engine)
    /\ arg' = None
    /\ UNCHANGED <<next_uuid, next_layer_uuid, not_engine>>

\* full_render called by the host; it takes &self
DoFullRender ==
    /\ \E r \in {Rendered(engine)} : engine' = r.e /\ ret' = r.ret
    /\ GhostsOutside("full_render", engine)
    /\ arg' = None
    /\ UNCHANGED <<next_uuid, next_layer_uuid, not_engine>>

\* load makes a LayerManager (one fresh layer id) once the document has been
\* read, and a second one when the document has no layer
DoLoad ==
    /\ next_layer_uuid <= MaxLoads
    /\ \E k \in 1..Len(Documents(engine)) :
         \E r \in {Load(engine, Documents(engine)[k], next_layer_uuid + 1)} :
             /\ engine' = r.e
             /\ ret' = r.ret
             /\ arg' = Some(Documents(engine)[k])
             /\ next_layer_uuid' = IF ~r.ret.ok THEN next_layer_uuid
                                   ELSE IF LoadFromJson(Documents(engine)[k]).val.layers = <<>> THEN next_layer_uuid + 2
                                   ELSE next_layer_uuid + 1
    /\ GhostsOutside("load", engine)
    /\ UNCHANGED <<next_uuid, not_engine>>

FNext == DoSetBrush \/ FBeginStroke \/ FAddPoint \/ DoEndStroke \/ DoUndo \/ DoRedo \/ DoZoom \/ DoPan \/ DoResetViewport \/ DoFullRender \/ DoSave \/ DoLoad

(***************************************************************************)
(* A StrokeBuilder on its own: StrokeBuilder::new(brush), then calls of    *)
(* add_point and one finish, which consumes the builder.                   *)
(***************************************************************************)
\* the positions of the samples given to a StrokeBuilder under test: the
\* corners of a right triangle with sides of 30, 40 and 50 pixels
BuilderPositions == {Point(0, 0), Point(300, 0), Point(300, 400)}

\* the pressures of those samples
BuilderPressures == {500, 1000}

\* the state after StrokeBuilder::new(brush)
BInitWith(brush) ==
    /\ builder = Some(StrokeBuilderNew(brush, 0))
    /\ b_op = "new"
    /\ b_ret = <<>>
    /\ b_pre = builder

\* the samples arrive 16 ms apart
BAddPoint ==
    /\ builder.some
    /\ Len(builder.val.stroke.points) < MaxSamples
    /\ \E pos \in BuilderPositions, pressure \in BuilderPressures :
         \E r \in {BuilderAddPoint(builder.val, StrokePoint(pos.x, pos.y, pressure, 16 * Len(builder.val.stroke.points)))} :
             /\ builder' = Some(r.b)
             /\ b_ret' = r.ret
    /\ b_op' = "add_point"
    /\ b_pre' = builder
    /\ UNCHANGED not_builder

BFinish ==
    /\ builder.some
    /\ builder' = None
    /\ b_ret' = BuilderFinish(builder.val)
    /\ b_op' = "finish"
    /\ b_pre' = builder
    /\ UNCHANGED not_builder

BNext == BAddPoint \/ BFinish

(***************************************************************************)
(* Threads calling one DrawEngineFFI: every method takes the RwLock, write *)
(* for the mutating methods and read for the queries, runs its body in     *)
(* steps and drops the guard when it returns.                              *)
(***************************************************************************)
\* the input thread and the render thread of a host
Threads == {"input", "render"}

\* the methods that take self.inner.write()
Mutators == {"set_brush", "begin_stroke", "add_point", "end_stroke", "undo", "redo", "zoom", "pan", "reset_viewport", "load"}

\* the methods that take self.inner.read()
Queries == {"full_render", "get_state", "save"}

\* a bug: write() is granted while other threads hold read guards
WriteGrantedAmongReaders(pc, t) == \A u \in Threads : pc[u] \notin {"write_locked", "write_half"}

\* RwLock::write() is granted when no thread holds a guard
WriteGranted(pc, t) == \A u \in Threads : pc[u] = "idle"

\* a bug: read() is granted while a thread holds the write guard
ReadGrantedAlways(pc, t) == TRUE

\* RwLock::read() is granted when no thread holds the write guard
ReadGranted(pc, t) == \A u \in Threads : pc[u] \notin {"write_locked", "write_half"}

\* the engine when the mutating method name has run its whole body on e; the
\* host draws from (0, 0) to (121.5, 162), sets the eraser, zooms by 2 around
\* the middle of the screen, pans by (50, -20) and loads the document of two
\* layers
BodyDone(name, e, id) ==
    CASE name = "set_brush" -> SetBrush(e, BrushEraser(200))
      [] name = "begin_stroke" -> BeginStroke(e, 0, 0, 500, 0, id).e
      [] name = "add_point" -> AddPoint(e, 1215, 1620, 1000, 16).e
      [] name = "end_stroke" -> EndStroke(e).e
      [] name = "undo" -> Undo(e).e
      [] name = "redo" -> Redo(e).e
      [] name = "zoom" -> Zoom(e, 2000, 9600, 5400).e
      [] name = "pan" -> Pan(e, 500, -200).e
      [] name = "reset_viewport" -> ResetViewport(e).e
      [] name = "load" -> Load(e, DocTwoLayers, id).e

\* the engine in the middle of the body: end_stroke has taken the builder
\* and not yet touched the layer, undo and redo have moved the action
\* between the stacks and not yet applied it, load has installed the
\* document and not yet cleared the history, zoom has set offset_x and not
\* yet offset_y and scale; the others have written nothing yet
BodyHalf(name, e, id) ==
    CASE name = "end_stroke" -> [e EXCEPT !.active_builder = None]
      [] name = "undo" -> [e EXCEPT !.history = HistoryUndo(e.history).h]
      [] name = "redo" -> [e EXCEPT !.history = HistoryRedo(e.history).h]
      [] name = "load" -> [Load(e, DocTwoLayers, id).e EXCEPT !.history = e.history]
      [] name = "zoom" -> [e EXCEPT !.viewport.offset_x = Zoom(e, 2000, 9600, 5400).e.viewport.offset_x]
      [] OTHER -> e

\* what a query has read before it reads anything
NoSnap == [offset_x |-> 0, offset_y |-> 0, stroke_count |-> 0, can_undo |-> FALSE, can_redo |-> FALSE, scale |-> 0, active_layer_id |-> 0, render |-> <<>>, json |-> None]

\* the first reads of a query: get_state reads the offset and the stroke
\* count, full_render and save have not returned yet
FirstReads(name, snap, e) ==
    IF name = "get_state"
    THEN [snap EXCEPT !.offset_x = e.viewport.offset_x, !.offset_y = e.viewport.offset_y, !.stroke_count = StrokeCount(e)]
    ELSE snap

\* the rest of a query: get_state reads can_undo, can_redo, the scale and
\* the id of the active layer, full_render and save return
LastReads(name, snap, e) ==
    CASE name = "get_state" -> [snap EXCEPT !.can_undo = e.history.undo_stack # <<>>, !.can_redo = e.history.redo_stack # <<>>, !.scale = e.viewport.scale, !.active_layer_id = ActiveLayer(e.layer_manager).id]
      [] name = "full_render" -> [snap EXCEPT !.render = FullRender(e)]
      [] name = "save" -> [snap EXCEPT !.json = Some(Save(e).ret)]

LInit ==
    /\ l_pc = [t \in Threads |-> "idle"]
    /\ l_call = [t \in Threads |-> "none"]
    /\ l_entry = DrawEngineNew(19200, 10800, 0)
    /\ l_snap = [t \in Threads |-> NoSnap]
    /\ l_seen = [t \in Threads |-> DrawEngineNew(19200, 10800, 0)]
    /\ l_committed = DrawEngineNew(19200, 10800, 0)
    /\ l_calls = 0

\* a mutating method is called: let mut engine = self.inner.write().unwrap()
LWriteLock(t) ==
    /\ l_pc[t] = "idle"
    /\ l_calls < MaxLockCalls
    /\ WriteGranted(l_pc, t)
    /\ \E name \in Mutators : l_call' = [l_call EXCEPT ![t] = name]
    /\ l_pc' = [l_pc EXCEPT ![t] = "write_locked"]
    /\ l_entry' = engine
    /\ l_calls' = l_calls + 1
    /\ UNCHANGED <<l_snap, l_seen, l_committed>>
    /\ UNCHANGED <<evars, not_lock>>

\* the body of the mutating method up to its middle
LWriteHalf(t) ==
    /\ l_pc[t] = "write_locked"
    /\ engine' = BodyHalf(l_call[t], l_entry, next_uuid)
    /\ l_pc' = [l_pc EXCEPT ![t] = "write_half"]
    /\ UNCHANGED <<l_call, l_entry, l_snap, l_seen, l_committed, l_calls>>
    /\ UNCHANGED <<next_uuid, op, ret, pre, fresh_run, undo_run, erase_run, brush_set_mid_stroke, next_layer_uuid, arg, abandoned, since_begin, stroke_open, commit_run, not_lock>>

\* the rest of the body; the guard is dropped when the method returns
LWriteUnlock(t) ==
    /\ l_pc[t] = "write_half"
    /\ engine' = BodyDone(l_call[t], l_entry, next_uuid)
    /\ next_uuid' = IF l_call[t] \in {"begin_stroke", "load"} THEN next_uuid + 1 ELSE next_uuid
    /\ l_committed' = engine'
    /\ l_pc' = [l_pc EXCEPT ![t] = "idle"]
    /\ UNCHANGED <<l_call, l_entry, l_snap, l_seen, l_calls>>
    /\ UNCHANGED <<op, ret, pre, fresh_run, undo_run, erase_run, brush_set_mid_stroke, next_layer_uuid, arg, abandoned, since_begin, stroke_open, commit_run, not_lock>>

\* a query is called: let engine = self.inner.read().unwrap()
LReadLock(t) ==
    /\ l_pc[t] = "idle"
    /\ l_calls < MaxLockCalls
    /\ ReadGranted(l_pc, t)
    /\ \E name \in Queries : l_call' = [l_call EXCEPT ![t] = name]
    /\ l_pc' = [l_pc EXCEPT ![t] = "read_locked"]
    /\ l_snap' = [l_snap EXCEPT ![t] = NoSnap]
    /\ l_seen' = [l_seen EXCEPT ![t] = engine]
    /\ l_calls' = l_calls + 1
    /\ UNCHANGED <<l_entry, l_committed>>
    /\ UNCHANGED <<evars, not_lock>>

\* the first reads of the query
LReadHalf(t) ==
    /\ l_pc[t] = "read_locked"
    /\ l_snap' = [l_snap EXCEPT ![t] = FirstReads(l_call[t], l_snap[t], engine)]
    /\ l_pc' = [l_pc EXCEPT ![t] = "read_half"]
    /\ UNCHANGED <<l_call, l_entry, l_seen, l_committed, l_calls>>
    /\ UNCHANGED <<evars, not_lock>>

\* the rest of the reads; the guard is dropped when the query returns
LReadUnlock(t) ==
    /\ l_pc[t] = "read_half"
    /\ l_snap' = [l_snap EXCEPT ![t] = LastReads(l_call[t], l_snap[t], engine)]
    /\ l_pc' = [l_pc EXCEPT ![t] = "idle"]
    /\ UNCHANGED <<l_call, l_entry, l_seen, l_committed, l_calls>>
    /\ UNCHANGED <<evars, not_lock>>

LNext == \E t \in Threads : LWriteLock(t) \/ LWriteHalf(t) \/ LWriteUnlock(t) \/ LReadLock(t) \/ LReadHalf(t) \/ LReadUnlock(t)

(***************************************************************************)
(* Two threads drawing on one DrawEngineFFI: each runs begin_stroke,       *)
(* add_point, end_stroke once.  Every one of these methods holds the write *)
(* lock from its first statement to its return, so a call is one step and  *)
(* the calls of the two threads interleave in any order.                   *)
(***************************************************************************)
Pens == {"pen1", "pen2"}

\* the samples a thread gives to begin_stroke; the two threads draw in
\* different corners of the canvas
BeginSamples(t) ==
    IF t = "pen1" THEN {<<0, 0, 500, 0>>, <<300, 0, 500, 0>>}
    ELSE {<<2000, 2000, 500, 8>>, <<2300, 2000, 1000, 8>>}

\* the samples a thread gives to add_point
AddSamples(t) ==
    IF t = "pen1" THEN {<<300, 400, 500, 16>>, <<0, 400, 1000, 16>>}
    ELSE {<<2300, 2400, 500, 24>>, <<2000, 2400, 1000, 24>>}

PInit ==
    /\ p_done = [t \in Pens |-> 0]
    /\ p_sent = [t \in Pens |-> <<>>]
    /\ p_overlap = FALSE

PBeginStroke(t) ==
    /\ p_done[t] = 0
    /\ \E s \in BeginSamples(t) :
         /\ \E r \in {BeginStroke(engine, s[1], s[2], s[3], s[4], next_uuid)} : engine' = r.e /\ ret' = r.ret
         /\ since_begin' = <<s>>
         /\ p_sent' = [p_sent EXCEPT ![t] = <<s>>]
    /\ next_uuid' = next_uuid + 1
    /\ Ghosts("begin_stroke", engine, engine')
    /\ p_done' = [p_done EXCEPT ![t] = 1]
    /\ p_overlap' = (p_overlap \/ \E u \in Pens \ {t} : p_done[u] \in {1, 2})
    /\ UNCHANGED <<next_layer_uuid, not_pens>>

PAddPoint(t) ==
    /\ p_done[t] = 1
    /\ \E s \in AddSamples(t) :
         /\ \E r \in {AddPoint(engine, s[1], s[2], s[3], s[4])} : engine' = r.e /\ ret' = r.ret
         /\ since_begin' = IF stroke_open THEN Append(since_begin, s) ELSE since_begin
         /\ p_sent' = [p_sent EXCEPT ![t] = Append(@, s)]
    /\ Ghosts("add_point", engine, engine')
    /\ p_done' = [p_done EXCEPT ![t] = 2]
    /\ UNCHANGED <<next_uuid, next_layer_uuid, p_overlap, not_pens>>

PEndStroke(t) ==
    /\ p_done[t] = 2
    /\ \E r \in {EndStroke(engine)} : engine' = r.e /\ ret' = r.ret
    /\ Ghosts("end_stroke", engine, engine')
    /\ since_begin' = <<>>
    /\ p_done' = [p_done EXCEPT ![t] = 3]
    /\ UNCHANGED <<next_uuid, next_layer_uuid, p_sent, p_overlap, not_pens>>

PNext == \E t \in Pens : PBeginStroke(t) \/ PAddPoint(t) \/ PEndStroke(t)

(***************************************************************************)
(* compute_width on its own and inside add_point: a StrokeBuilder with a   *)
(* preset brush, then direct calls of compute_width on that brush and      *)
(* calls of add_point, which computes the width of the sample it stores.   *)
(***************************************************************************)
\* the preset brushes: pen(black, 2.0), highlighter(black, 12.0), eraser(20.0)
PresetBrushes == {BrushDefault, BrushHighlighter(ColorBlack, 120), BrushEraser(200)}

\* the pressures compute_width is called with: below 0, 0, 0.5, 1, above 1, NaN
WidthPressures == {-1000, 0, 500, 1000, 3000, F64NaN}

\* the velocities compute_width is called with, in pixels per second
WidthVelocities == {-500, 0, 500, 1000, 2000, 100000, F64NaN}

\* the pressures of the samples given to the builder
SamplePressures == {0, 1000}

\* how far right of the last sample the next one lies, 16 ms later: 0 and
\* 32 pixels, that is 0 and 2000 pixels per second
SampleAdvances == {0, 320}

WInit ==
    /\ w_op = "none"
    /\ w_pressure = 0
    /\ w_velocity = 0
    /\ w_ret = 0

\* brush.compute_width(pressure, velocity) on the brush of the builder
WCompute ==
    /\ builder.some
    /\ \E pressure \in WidthPressures, velocity \in WidthVelocities :
         /\ w_pressure' = pressure
         /\ w_velocity' = velocity
         /\ w_ret' = ComputeWidth(builder.val.stroke.brush, pressure, velocity)
    /\ w_op' = "compute_width"
    /\ UNCHANGED bvars
    /\ UNCHANGED not_width

\* add_point with the next sample: the width pushed is compute_width of its
\* pressure and of its speed from the last sample
WAddPoint ==
    /\ builder.some
    /\ Len(builder.val.stroke.points) < MaxWidthSamples
    /\ \E pressure \in SamplePressures, advance \in SampleAdvances :
         \E point \in {StrokePoint((IF builder.val.stroke.points # <<>> THEN Last(builder.val.stroke.points).position.x ELSE 0) + advance, 0, pressure, 16 * Len(builder.val.stroke.points))} :
             \E r \in {BuilderAddPoint(builder.val, point)} :
                 /\ builder' = Some(r.b)
                 /\ b_ret' = r.ret
                 /\ w_pressure' = pressure
                 /\ w_velocity' = r.b.last_velocity
                 /\ w_ret' = Last(r.b.widths)
    /\ b_op' = "add_point"
    /\ b_pre' = builder
    /\ w_op' = "add_point"
    /\ UNCHANGED not_width

WNext == WCompute \/ WAddPoint

(***************************************************************************)
(* find_strokes_to_erase on its own: a slice of candidate strokes, then    *)
(* calls with an eraser point and an eraser radius.                        *)
(***************************************************************************)
\* a stroke made with the eraser brush over the path of DocStrokeA
DocStrokeEraser == BuilderFinish(BuilderAddPoint(BuilderAddPoint(StrokeBuilderNew(BrushEraser(200), 14), StrokePoint(0, 0, 500, 0)).b, StrokePoint(300, 400, 1000, 16)).b)

\* a stroke of a loaded document: the path of DocStrokeC under a bounding box
\* whose min_x lies right of its max_x
DocStrokeInverted == [DocStrokeC EXCEPT !.id = 15, !.bounding_box.min_x = 610, !.bounding_box.max_x = 590]

\* the strokes a candidate slice is made of
CandidatePool == {DocStrokeA, DocStrokeB, DocStrokeC, DocStrokeEraser, DocStrokeInverted}

\* the slices given: up to MaxCandidates strokes of the pool, each at most once
CandidateSlices == {sl \in UNION {[1..n -> CandidatePool] : n \in 0..MaxCandidates} : \A i, j \in 1..Len(sl) : i # j => sl[i] # sl[j]}

\* the eraser points given: on DocStrokeA, beside it, between DocStrokeA and
\* DocStrokeC, on DocStrokeC, beside its box, and far from every stroke
EraserPoints == {Point(150, 200), Point(230, 140), Point(450, 400), Point(600, 400), Point(700, 900), Point(5000, 5000)}

\* the eraser radii given: 1, 5 and 15 pixels
EraserRadii == {10, 50, 150}

\* the state before any call, with the slice strokes
XInitWith(strokes) ==
    /\ x_strokes = strokes
    /\ x_op = "none"
    /\ x_point = Point(0, 0)
    /\ x_radius = 0
    /\ x_ret = <<>>

XFind ==
    /\ \E eraser_point \in EraserPoints, eraser_radius \in EraserRadii :
         /\ x_ret' = FindStrokesToErase(x_strokes, eraser_point, eraser_radius)
         /\ x_point' = eraser_point
         /\ x_radius' = eraser_radius
    /\ x_op' = "find_strokes_to_erase"
    /\ UNCHANGED x_strokes
    /\ UNCHANGED not_eraser

XNext == XFind

(***************************************************************************)
(* A Viewport on its own: Viewport::new(), then calls of zoom, pan and     *)
(* reset.                                                                  *)
(***************************************************************************)
\* the factors given to zoom: x2, x0.5, x100 (clamped by max_scale), x0.001
\* (clamped by min_scale) and NaN
ViewportFactors == {2000, 500, 100000, 1, F64NaN}

\* the focal points given to zoom: the screen origin, (960, 540) and a point
\* with a NaN coordinate
ViewportFocals == {Point(0, 0), Point(9600, 5400), Point(F64NaN, 0)}

\* the pans (dx, dy) given to pan
ViewportPans == {<<800, -1600>>}

\* the fixed-point a * b / den is a whole number, as it is in f64 up to its
\* last bits (NaN takes no rounding)
Whole(a, b, den) == IF IsNaN(a) \/ IsNaN(b) \/ IsNaN(den) THEN TRUE ELSE (a * b) % den = 0

\* the zooms given to a Viewport under test are those the fixed-point
\* arithmetic does without rounding: the new scale, actual_factor, the two
\* offsets and the canvas point under the focal point are whole
ExactZoom(v, factor, focal) ==
    /\ Whole(v.scale, factor, 1000)
    /\ Whole(ViewportZoom(v, factor, focal).scale, 1000, v.scale)
    /\ Whole(F64Sub(focal.x, v.offset_x), F64MulDiv(ViewportZoom(v, factor, focal).scale, 1000, v.scale), 1000)
    /\ Whole(F64Sub(focal.y, v.offset_y), F64MulDiv(ViewportZoom(v, factor, focal).scale, 1000, v.scale), 1000)
    /\ Whole(F64Sub(focal.x, v.offset_x), 1000, v.scale)
    /\ Whole(F64Sub(focal.y, v.offset_y), 1000, v.scale)

\* the state after Viewport::new()
VInit ==
    /\ viewport = ViewportNew
    /\ v_op = "new"
    /\ v_arg = None
    /\ v_pre = viewport
    /\ v_calls = 0
    /\ v_nan_zoom = FALSE

VZoom ==
    /\ v_calls < MaxViewportCalls
    /\ \E factor \in ViewportFactors, focal \in ViewportFocals :
         /\ ExactZoom(viewport, factor, focal)
         /\ viewport' = ViewportZoom(viewport, factor, focal)
         /\ v_arg' = Some([factor |-> factor, focal |-> focal])
         /\ v_nan_zoom' = (v_nan_zoom \/ IsNaN(factor))
    /\ v_op' = "zoom"
    /\ v_pre' = viewport
    /\ v_calls' = v_calls + 1
    /\ UNCHANGED not_viewport

VPan ==
    /\ v_calls < MaxViewportCalls
    /\ \E d \in ViewportPans : viewport' = ViewportPan(viewport, d[1], d[2])
    /\ v_op' = "pan"
    /\ v_arg' = None
    /\ v_pre' = viewport
    /\ v_calls' = v_calls + 1
    /\ UNCHANGED v_nan_zoom
    /\ UNCHANGED not_viewport

VReset ==
    /\ v_calls < MaxViewportCalls
    /\ viewport' = ViewportReset(viewport)
    /\ v_op' = "reset"
    /\ v_arg' = None
    /\ v_pre' = viewport
    /\ v_calls' = v_calls + 1
    /\ UNCHANGED v_nan_zoom
    /\ UNCHANGED not_viewport

VNext == VZoom \/ VPan \/ VReset

(***************************************************************************)
(* A History on its own: History::new(m), then any calls of push, undo and *)
(* redo.  The pushed actions are the ones of the crate's tests: an         *)
(* AddStroke or a RemoveStroke of a freshly made stroke.                   *)
(***************************************************************************)
\* the layer indices a pushed action carries
PushLayers == {0, 1}

\* the state after History::new(m)
HInitWith(m) ==
    /\ hist = HistoryNew(m)
    /\ h_uuid = 1
    /\ h_op = "new"
    /\ h_arg = None
    /\ h_ret = None
    /\ h_pre = hist
    /\ h_op2 = "new"
    /\ h_pre2 = hist
    /\ run_pushes = <<>>
    /\ run_undos = <<>>

HInit ==
    /\ \E m \in 0..MaxSize : HInitWith(m)
    /\ EInit
    /\ BInitWith(BrushDefault)
    /\ VInit
    /\ XInitWith(<<>>)
    /\ WInit
    /\ LInit
    /\ PInit

HPush ==
    /\ h_uuid <= MaxPushes
    /\ \E tag \in {"AddStroke", "RemoveStroke"}, li \in PushLayers :
         LET stroke == StrokeNew(BrushDefault, h_uuid)
             action == [tag |-> tag, layer_index |-> li, stroke |-> stroke]
         IN  /\ hist' = HistoryPush(hist, action)
             /\ h_arg' = Some(action)
             /\ run_pushes' = IF h_op = "push" THEN Append(run_pushes, action) ELSE <<action>>
    /\ h_uuid' = h_uuid + 1
    /\ h_op' = "push"
    /\ h_ret' = None
    /\ h_pre' = hist
    /\ h_op2' = h_op
    /\ h_pre2' = h_pre
    /\ run_undos' = <<>>
    /\ UNCHANGED not_history

\* the log of undo results stops growing once it is longer than any History
HUndo ==
    /\ hist' = HistoryUndo(hist).h
    /\ h_ret' = HistoryUndo(hist).ret
    /\ h_op' = "undo"
    /\ h_arg' = None
    /\ h_pre' = hist
    /\ h_op2' = h_op
    /\ h_pre2' = h_pre
    /\ run_undos' = IF Len(run_undos) <= hist.max_size + 1
                    THEN Append(run_undos, HistoryUndo(hist).ret)
                    ELSE run_undos
    /\ UNCHANGED <<h_uuid, run_pushes>>
    /\ UNCHANGED not_history

HRedo ==
    /\ hist' = HistoryRedo(hist).h
    /\ h_ret' = HistoryRedo(hist).ret
    /\ h_op' = "redo"
    /\ h_arg' = None
    /\ h_pre' = hist
    /\ h_op2' = h_op
    /\ h_pre2' = h_pre
    /\ run_pushes' = <<>>
    /\ run_undos' = <<>>
    /\ UNCHANGED h_uuid
    /\ UNCHANGED not_history

HNext == HPush \/ HUndo \/ HRedo

SpecHistory == HInit /\ [][HNext]_vars

BInit ==
    /\ \E brush \in Brushes : BInitWith(brush)
    /\ EInit
    /\ HInitWith(0)
    /\ VInit
    /\ XInitWith(<<>>)
    /\ WInit
    /\ LInit
    /\ PInit

SpecBuilder == BInit /\ [][BNext]_vars

\* the engine facade; the History and the StrokeBuilder under test stay as constructed
Init == EInit /\ HInitWith(0) /\ BInitWith(BrushDefault) /\ VInit /\ XInitWith(<<>>) /\ WInit /\ LInit /\ PInit

Next == ENext

Spec == Init /\ [][Next]_vars

\* the engine facade with a history of EvictSize actions: the third action
\* pushed evicts the first
EvictInit ==
    /\ EInitWith([DrawEngineNew(19200, 10800, 0) EXCEPT !.history = HistoryNew(EvictSize)])
    /\ HInitWith(0)
    /\ BInitWith(BrushDefault)
    /\ VInit
    /\ XInitWith(<<>>)
    /\ WInit
    /\ LInit
    /\ PInit

SpecEvict == EvictInit /\ [][ENext]_vars

\* the whole facade from the same DrawEngine::new(1920, 1080)
SpecFacade == Init /\ [][FNext]_vars

\* the Viewport under test; the rest stays as constructed
SpecViewport == Init /\ [][VNext]_vars

XInit ==
    /\ \E strokes \in CandidateSlices : XInitWith(strokes)
    /\ EInit
    /\ HInitWith(0)
    /\ BInitWith(BrushDefault)
    /\ VInit
    /\ WInit
    /\ LInit
    /\ PInit

SpecEraser == XInit /\ [][XNext]_vars

WInitAll ==
    /\ \E brush \in PresetBrushes : BInitWith(brush)
    /\ EInit
    /\ HInitWith(0)
    /\ VInit
    /\ XInitWith(<<>>)
    /\ WInit
    /\ LInit
    /\ PInit

SpecWidth == WInitAll /\ [][WNext]_vars

\* the threads of a DrawEngineFFI::new(1920, 1080); the rest stays as constructed
SpecLock == Init /\ [][LNext]_vars

\* two threads drawing on a DrawEngineFFI::new(1920, 1080)
SpecPens == Init /\ [][PNext]_vars



(***************************************************************************)
(* Claims about a History on its own (SpecHistory).                        *)
(***************************************************************************)
\* an action r is the inverse of an action a: the other tag, the same
\* layer_index and the same stroke
IsInverseOf(r, a) ==
    /\ r.tag = (IF a.tag = "AddStroke" THEN "RemoveStroke" ELSE "AddStroke")
    /\ r.layer_index = a.layer_index
    /\ r.stroke = a.stroke
    /\ r.stroke.id = a.stroke.id

\* C1 as stated: right after a push the redo stack is empty and the pushed
\* action is on top of the undo stack, whatever max_size is.
C1_AfterPushRedoEmptyAndOnTop ==
    h_op = "push" =>
        /\ ~can_redo(hist)
        /\ can_undo(hist)
        /\ Last(hist.undo_stack) = h_arg.val

\* C1 amended: right after a push the redo stack is empty; when max_size >= 1
\* the pushed action is on top of the undo stack (with max_size = 0 the push
\* evicts the action it has just appended and the undo stack stays empty).
C1_AfterPushRedoEmpty ==
    h_op = "push" =>
        /\ ~can_redo(hist)
        /\ hist.max_size >= 1 => (can_undo(hist) /\ Last(hist.undo_stack) = h_arg.val)
        /\ hist.max_size = 0 => ~can_undo(hist)

\* a push made while the redo stack held an action, on a History that keeps actions
C1_Witness ==
    /\ h_op = "push"
    /\ can_redo(h_pre)
    /\ hist.max_size >= 1
    /\ Len(h_pre.undo_stack) >= 1

\* C2: with max_size >= 1 the undo stack never holds more than max_size
\* actions, under any interleaving of push, undo and redo.
C2_UndoStackBounded ==
    hist.max_size >= 1 => Len(hist.undo_stack) <= hist.max_size

\* a redo has just filled the undo stack to max_size after an eviction took place
C2_Witness ==
    /\ h_op = "redo"
    /\ h_ret.some
    /\ hist.max_size >= 1
    /\ Len(hist.undo_stack) = hist.max_size
    /\ h_uuid > hist.max_size + 1

\* C3: after K > max_size consecutive pushes, the first max_size undos return
\* the inverses of the most recently pushed actions, newest first, and every
\* later undo returns nothing.
C3_UndoAfterOverflow ==
    LET K == Len(run_pushes)
    IN  K > hist.max_size =>
            \A i \in 1..Len(run_undos) :
                IF i <= hist.max_size
                THEN /\ run_undos[i].some
                     /\ IsInverseOf(run_undos[i].val, run_pushes[K - i + 1])
                ELSE run_undos[i] = None

\* more pushes than max_size >= 2, then max_size successful undos and a failed one
C3_Witness ==
    /\ hist.max_size >= 2
    /\ Len(run_pushes) > hist.max_size
    /\ Len(run_undos) = hist.max_size + 1
    /\ h_op = "undo"

\* C4: undo on a non-empty undo stack returns the inverse of the top action
\* and moves the action to the redo stack; redo returns the top redo action
\* unchanged and moves it back; a redo right after a successful undo restores
\* both stacks; on an empty stack either call returns nothing and changes
\* nothing.
C4_UndoRedoContract ==
    /\ (h_op = "undo" /\ h_pre.undo_stack # <<>>) =>
            /\ h_ret.some
            /\ IsInverseOf(h_ret.val, Last(h_pre.undo_stack))
            /\ hist.undo_stack = Front(h_pre.undo_stack)
            /\ hist.redo_stack = Append(h_pre.redo_stack, Last(h_pre.undo_stack))
            /\ hist.max_size = h_pre.max_size
    /\ (h_op = "redo" /\ h_pre.redo_stack # <<>>) =>
            /\ h_ret = Some(Last(h_pre.redo_stack))
            /\ hist.redo_stack = Front(h_pre.redo_stack)
            /\ hist.undo_stack = Append(h_pre.undo_stack, Last(h_pre.redo_stack))
            /\ hist.max_size = h_pre.max_size
    /\ (h_op = "redo" /\ h_op2 = "undo" /\ h_pre2.undo_stack # <<>>) => hist = h_pre2
    /\ (h_op = "undo" /\ h_pre.undo_stack = <<>>) => (h_ret = None /\ hist = h_pre)
    /\ (h_op = "redo" /\ h_pre.redo_stack = <<>>) => (h_ret = None /\ hist = h_pre)

\* a redo right after a successful undo, with actions left on both stacks
C4_Witness ==
    /\ h_op = "redo"
    /\ h_op2 = "undo"
    /\ h_pre2.undo_stack # <<>>
    /\ h_pre2.redo_stack # <<>>
    /\ Last(h_pre2.undo_stack).tag = "RemoveStroke"

(***************************************************************************)
(* Claims about the engine facade (Spec).                                  *)
(***************************************************************************)
\* C5: on a fresh engine, after N pen strokes are committed and N undos are
\* applied, stroke_count = 0, can_undo is false and can_redo is true; N redos
\* then give stroke_count = N, can_undo true and can_redo false.
C5_UndoAllThenRedoAll ==
    /\ (fresh_run.phase = "undo" /\ fresh_run.u = fresh_run.n) =>
            /\ StrokeCount(engine) = 0
            /\ ~can_undo(engine.history)
            /\ can_redo(engine.history)
    /\ (fresh_run.phase = "redo" /\ fresh_run.r = fresh_run.n) =>
            /\ StrokeCount(engine) = fresh_run.n
            /\ can_undo(engine.history)
            /\ ~can_redo(engine.history)

\* two strokes committed on the fresh engine, two undos, two redos
C5_Witness ==
    /\ fresh_run.phase = "redo"
    /\ fresh_run.n >= 2
    /\ fresh_run.r = fresh_run.n
    /\ fresh_run.n <= engine.history.max_size

\* C6: from any state between strokes, N successful undos followed by N redos
\* leave every layer's ordered stroke list equal to what it was before the N
\* undos.
C6_UndosThenRedosRestoreLayers ==
    undo_run.phase = "redo" =>
        LayerStrokes(engine) = undo_run.snaps[Len(undo_run.snaps) - undo_run.r + 1]

\* the strokes the layers show, in paint order
VisibleStrokes(e) == AllVisibleStrokes(e.layer_manager)

\* C7: begin_stroke, at least one add_point and end_stroke with a non-eraser
\* brush append exactly one stroke to the end of the active layer, push
\* exactly one AddStroke{active_layer_index, that stroke}, leave can_undo true
\* and can_redo false, and end_stroke returns a full render with exactly one
\* DrawVariableWidthPath per visible stroke.
C7_PenEndStrokeCommits ==
    (/\ op = "end_stroke"
     /\ pre.active_builder.some
     /\ Len(pre.active_builder.val.stroke.points) >= 2
     /\ pre.current_brush.brush_type # "Eraser") =>
        LET idx == pre.layer_manager.active_layer_index
            old == LayerStrokes(pre)
            new == LayerStrokes(engine)
            stroke == Last(new[idx + 1])
            vis == VisibleStrokes(engine)
        IN  /\ Len(new) = Len(old)
            /\ \A i \in 1..Len(old) : i # idx + 1 => new[i] = old[i]
            /\ Len(new[idx + 1]) = Len(old[idx + 1]) + 1
            /\ Front(new[idx + 1]) = old[idx + 1]
            /\ StrokeCount(engine) = StrokeCount(pre) + 1
            /\ stroke.id = pre.active_builder.val.stroke.id
            /\ stroke.points = pre.active_builder.val.stroke.points
            /\ Len(stroke.segments) = Len(stroke.points) - 1
            /\ engine.history.undo_stack = Append(pre.history.undo_stack, AddStroke(idx, stroke))
            /\ can_undo(engine.history)
            /\ ~can_redo(engine.history)
            /\ ~engine.active_builder.some
            /\ Len(ret) = Len(vis) + 4
            /\ ret[1].cmd = "Clear" /\ ret[2].cmd = "SaveState" /\ ret[3].cmd = "SetTransform"
            /\ ret[Len(ret)].cmd = "RestoreState"
            /\ \A i \in 1..Len(vis) :
                   ret[3 + i] = DrawVariableWidthPath(PathSegments(vis[i].segments), vis[i].color, vis[i].is_eraser)

\* a three-sample pen stroke committed on top of another stroke while the redo
\* stack held an action
C7_Witness ==
    /\ op = "end_stroke"
    /\ pre.active_builder.some
    /\ Len(pre.active_builder.val.stroke.points) = 3
    /\ pre.current_brush.brush_type = "Pen"
    /\ can_redo(pre.history)
    /\ StrokeCount(pre) >= 1
    /\ StrokeCount(engine) = StrokeCount(pre) + 1

\* the ids find_strokes_to_erase reports for sample i of the eraser path
HitBy(strokes, brush, points, i) ==
    LET ids == FindStrokesToErase(strokes, points[i].position, ComputeWidth(brush, points[i].pressure, 0) \div 2)
    IN  {ids[j] : j \in 1..Len(ids)}

\* the first sample of the eraser path that reports the id
FirstHit(strokes, brush, points, id) == CHOOSE i \in 1..Len(points) : id \in HitBy(strokes, brush, points, i) /\ \A j \in 1..(i - 1) : id \notin HitBy(strokes, brush, points, j)

\* C8: end_stroke with the eraser brush removes from the active layer exactly
\* the strokes find_strokes_to_erase reports for at least one sample of the
\* eraser path (radius compute_width(pressure, 0) / 2), each in full, pushes
\* one RemoveStroke per removed stroke in first-hit order, and leaves all
\* other strokes and all other layers unchanged.
C8_EraserEndStrokeRemoves ==
    (/\ op = "end_stroke"
     /\ pre.active_builder.some
     /\ pre.current_brush.brush_type = "Eraser") =>
        LET idx == pre.layer_manager.active_layer_index
            old == LayerStrokes(pre)
            new == LayerStrokes(engine)
            points == pre.active_builder.val.stroke.points
            brush == pre.current_brush
            removed == UNION {HitBy(old[idx + 1], brush, points, i) : i \in 1..Len(points)}
            Keep(s) == s.id \notin removed
            pushed == Pushed(pre, engine)
        IN  /\ Len(new) = Len(old)
            /\ \A i \in 1..Len(old) : i # idx + 1 => new[i] = old[i]
            /\ new[idx + 1] = SelectSeq(old[idx + 1], Keep)
            /\ Len(engine.history.undo_stack) = Len(pre.history.undo_stack) + Cardinality(removed)
            /\ SubSeq(engine.history.undo_stack, 1, Len(pre.history.undo_stack)) = pre.history.undo_stack
            /\ \A a \in 1..Len(pushed) :
                   /\ pushed[a].tag = "RemoveStroke"
                   /\ pushed[a].layer_index = idx
                   /\ pushed[a].stroke \in StrokeSet(old[idx + 1])
                   /\ pushed[a].stroke.id \in removed
            /\ \A a, b \in 1..Len(pushed) :
                   a < b =>
                       LET fa == FirstHit(old[idx + 1], brush, points, pushed[a].stroke.id)
                           fb == FirstHit(old[idx + 1], brush, points, pushed[b].stroke.id)
                       IN  \/ fa < fb
                           \/ /\ fa = fb
                              /\ PositionOf(old[idx + 1], pushed[a].stroke.id) < PositionOf(old[idx + 1], pushed[b].stroke.id)
            /\ ~engine.active_builder.some

\* an eraser path of two samples that removed two strokes out of order of the
\* layer: the later stroke was hit first
C8_Witness ==
    /\ op = "end_stroke"
    /\ pre.active_builder.some
    /\ pre.current_brush.brush_type = "Eraser"
    /\ Len(pre.active_builder.val.stroke.points) >= 2
    /\ Len(Pushed(pre, engine)) = 2
    /\ LET old == ActiveLayer(pre.layer_manager).strokes
           pushed == Pushed(pre, engine)
       IN  PositionOf(old, pushed[1].stroke.id) > PositionOf(old, pushed[2].stroke.id)

NoEraserStrokeInLayers ==
    \A i \in 1..Len(engine.layer_manager.layers) :
        \A j \in 1..Len(engine.layer_manager.layers[i].strokes) :
            ~engine.layer_manager.layers[i].strokes[j].is_eraser

\* C10 as stated: after any sequence of set_brush, begin_stroke, add_point,
\* end_stroke, undo and redo, no layer contains a stroke whose is_eraser flag
\* is true.
C10_NeverEraserStrokeInLayer == NoEraserStrokeInLayers

\* C10 amended: as long as set_brush has not been called while a stroke was in
\* progress, no layer contains a stroke whose is_eraser flag is true.
C10_NoEraserStrokeUnlessBrushSetMidStroke == ~brush_set_mid_stroke => NoEraserStrokeInLayers

\* an eraser stroke of two samples has ended over a layer that held a stroke,
\* and set_brush was never called mid-stroke
C10_Witness ==
    /\ ~brush_set_mid_stroke
    /\ op = "end_stroke"
    /\ pre.active_builder.some
    /\ pre.active_builder.val.stroke.is_eraser
    /\ pre.active_builder.val.stroke.segments # <<>>
    /\ pre.current_brush.brush_type = "Eraser"
    /\ StrokeCount(pre) >= 1

(***************************************************************************)
(* Claims about a StrokeBuilder on its own (SpecBuilder).                  *)
(***************************************************************************)
\* the linear stand-in from sample a to sample b: the control points are the
\* thirds of the way from a to b
Trisection(a, b, wa, wb) ==
    [p0 |-> a.position,
     p1 |-> Point(a.position.x + (b.position.x - a.position.x) \div 3, a.position.y + (b.position.y - a.position.y) \div 3),
     p2 |-> Point(a.position.x + (2 * (b.position.x - a.position.x)) \div 3, a.position.y + (2 * (b.position.y - a.position.y)) \div 3),
     p3 |-> b.position, start_width |-> wa, end_width |-> wb]

\* the Catmull-Rom cubic (alpha 0.5) over the last four of the n samples pts,
\* with the widths of samples n-3 and n-2 (counted from 0)
LastFourCubic(pts, widths, n) ==
    LET c == CatmullRomToBezier(pts[n - 3].position, pts[n - 2].position, pts[n - 1].position, pts[n].position)
    IN  [p0 |-> c[1], p1 |-> c[2], p2 |-> c[3], p3 |-> c[4], start_width |-> widths[n - 2], end_width |-> widths[n - 1]]

\* C13: after n samples the stroke in progress has max(0, n - 1) segments and
\* n widths; add_point returns no segment for n = 1, the one segment for
\* n = 2 and the last two segments of the stroke for n >= 3.
C13_SegmentAndWidthCounts ==
    /\ builder.some =>
            LET n == Len(builder.val.stroke.points)
            IN  /\ Len(builder.val.stroke.segments) = (IF n = 0 THEN 0 ELSE n - 1)
                /\ Len(builder.val.widths) = n
    /\ b_op = "add_point" =>
            LET n == Len(builder.val.stroke.points)
                segs == builder.val.stroke.segments
            IN  /\ n = Len(b_pre.val.stroke.points) + 1
                /\ n = 1 => b_ret = <<>>
                /\ n = 2 => b_ret = <<segs[1]>>
                /\ n >= 3 => b_ret = <<segs[n - 2], segs[n - 1]>>

\* the fifth sample has been ingested
C13_Witness ==
    /\ b_op = "add_point"
    /\ Len(builder.val.stroke.points) >= 5
    /\ Len(b_ret) = 2
    /\ b_ret[1] # b_ret[2]

\* C14: add_point of the n-th sample with n >= 4 replaces the segment that was
\* last with the cubic over samples n-4..n-1 and widths (w_{n-3}, w_{n-2}),
\* appends the linear stand-in from sample n-2 to sample n-1 with widths
\* (w_{n-2}, w_{n-1}) and leaves the earlier segments alone; with n = 3 it
\* only appends the stand-in.
C14_AddPointReplacesLast ==
    (b_op = "add_point" /\ Len(builder.val.stroke.points) >= 3) =>
        LET pts == builder.val.stroke.points
            n == Len(pts)
            w == builder.val.widths
            old == b_pre.val.stroke.segments
            new == builder.val.stroke.segments
        IN  /\ Len(new) = Len(old) + 1
            /\ new[Len(new)] = Trisection(pts[n - 1], pts[n], w[n - 1], w[n])
            /\ \A i \in 1..(Len(old) - 1) : new[i] = old[i]
            /\ n >= 4 => new[Len(old)] = LastFourCubic(pts, w, n)
            /\ n = 3 => new[Len(old)] = old[Len(old)]

\* the fifth sample has replaced a stand-in by a different cubic while two
\* earlier segments stayed
C14_Witness ==
    /\ b_op = "add_point"
    /\ Len(builder.val.stroke.points) = 5
    /\ builder.val.stroke.segments[3] # b_pre.val.stroke.segments[3]
    /\ builder.val.stroke.segments[2] # builder.val.stroke.segments[3]

\* C15: finish on n >= 4 samples replaces only the last segment, with the
\* cubic over the last four samples and widths (w_{n-3}, w_{n-2}); on n < 4
\* samples it changes no segment; the number of segments and the samples stay.
C15_FinishRefinesLastOnly ==
    b_op = "finish" =>
        LET old == b_pre.val.stroke
            n == Len(old.points)
        IN  /\ b_ret.points = old.points
            /\ b_ret.id = old.id
            /\ Len(b_ret.segments) = Len(old.segments)
            /\ \A i \in 1..(Len(old.segments) - 1) : b_ret.segments[i] = old.segments[i]
            /\ n >= 4 => b_ret.segments[n - 1] = LastFourCubic(old.points, b_pre.val.widths, n)
            /\ n < 4 => b_ret.segments = old.segments

\* finish on five samples has changed the last segment
C15_Witness ==
    /\ b_op = "finish"
    /\ Len(b_pre.val.stroke.points) = 5
    /\ b_ret.segments[4] # b_pre.val.stroke.segments[4]

\* the point lies in the box, borders included
InBox(bb, p) == bb.min_x <= p.x /\ p.x <= bb.max_x /\ bb.min_y <= p.y /\ p.y <= bb.max_y

\* C27: after finish on at least 2 samples the bounding box of the stroke is
\* valid and contains evaluate(seg, k/10) for every segment and every k in
\* 0..10; after finish on fewer than 2 samples it is the empty sentinel.
C27_BoundingBoxAfterFinish ==
    b_op = "finish" =>
        IF Len(b_ret.points) >= 2
        THEN /\ b_ret.bounding_box.min_x <= b_ret.bounding_box.max_x
             /\ b_ret.bounding_box.min_y <= b_ret.bounding_box.max_y
             /\ b_ret.segments # <<>>
             /\ \A i \in 1..Len(b_ret.segments) : \A k \in 0..10 :
                   InBox(b_ret.bounding_box, Evaluate(b_ret.segments[i], k, 10))
        ELSE /\ b_ret.bounding_box = [min_x |-> F64Max, min_y |-> F64Max, max_x |-> -F64Max, max_y |-> -F64Max]
             /\ b_ret.segments = <<>>

\* finish on five samples has changed the last segment and the box holds the
\* middle of the new one
C27_Witness ==
    /\ b_op = "finish"
    /\ Len(b_ret.points) = 5
    /\ b_ret.segments[4] # b_pre.val.stroke.segments[4]
    /\ InBox(b_ret.bounding_box, Evaluate(b_ret.segments[4], 5, 10))
    /\ b_ret.bounding_box.min_x < b_ret.bounding_box.max_x

\* the squares the outline of the stroke is sampled by: centre
\* evaluate(seg, k/10) and half-side width_at(k/10) / 2, for every segment
\* and every k in 0..10
SampleSquares(stroke) ==
    {[p |-> Evaluate(stroke.segments[i], k, 10), h |-> WidthAt(stroke.segments[i], k, 10) \div 2] :
        i \in 1..Len(stroke.segments), k \in 0..10}

LeastOf(S) == CHOOSE x \in S : \A y \in S : x <= y

GreatestOf(S) == CHOOSE x \in S : \A y \in S : y <= x

\* the smallest box that holds every square of SampleSquares(stroke)
UnionOfSquares(stroke) ==
    [min_x |-> LeastOf({q.p.x - q.h : q \in SampleSquares(stroke)}),
     min_y |-> LeastOf({q.p.y - q.h : q \in SampleSquares(stroke)}),
     max_x |-> GreatestOf({q.p.x + q.h : q \in SampleSquares(stroke)}),
     max_y |-> GreatestOf({q.p.y + q.h : q \in SampleSquares(stroke)})]

\* C38: after add_point and after finish the bounding box of a stroke with
\* segments is the union of the squares centred at evaluate(seg, t) with
\* half-side width_at(t) / 2, over every segment and every t in
\* {0, 0.1, ..., 1}: the outline is inflated by half the width once.
C38_BoundingBoxIsUnionOfSquares ==
    /\ (b_op = "add_point" /\ builder.val.stroke.segments # <<>>) =>
           builder.val.stroke.bounding_box = UnionOfSquares(builder.val.stroke)
    /\ (b_op = "finish" /\ b_ret.segments # <<>>) =>
           b_ret.bounding_box = UnionOfSquares(b_ret)

\* the segments run from the first sample to the last without a gap
ContinuousThroughSamples(stroke) ==
    /\ stroke.segments # <<>>
    /\ stroke.segments[1].p0 = stroke.points[1].position
    /\ \A i \in 1..(Len(stroke.segments) - 1) : stroke.segments[i].p3 = stroke.segments[i + 1].p0
    /\ stroke.segments[Len(stroke.segments)].p3 = stroke.points[Len(stroke.points)].position

\* C30: after finish on n >= 2 samples the first segment starts at sample 0,
\* every segment ends where the next one starts and the last segment ends at
\* the last sample.
C30_FinishedStrokeIsContinuous ==
    (b_op = "finish" /\ Len(b_ret.points) >= 2) => ContinuousThroughSamples(b_ret)

\* C31: after every add_point, segment k (k = 0..n-2) starts at sample k,
\* ends at sample k+1 and has the widths (w_k, w_{k+1}), so consecutive
\* segments share their endpoint and width; segment 0 is the linear
\* trisection from sample 0 to sample 1 and is the one it was before.
C31_SegmentsFollowSamples ==
    b_op = "add_point" =>
        LET pts == builder.val.stroke.points
            segs == builder.val.stroke.segments
            w == builder.val.widths
        IN  /\ \A k \in 1..(Len(pts) - 1) :
                  /\ segs[k].p0 = pts[k].position
                  /\ segs[k].p3 = pts[k + 1].position
                  /\ segs[k].start_width = w[k]
                  /\ segs[k].end_width = w[k + 1]
            /\ \A k \in 1..(Len(segs) - 1) :
                  /\ segs[k].p3 = segs[k + 1].p0
                  /\ segs[k].end_width = segs[k + 1].start_width
            /\ Len(pts) >= 2 => segs[1] = Trisection(pts[1], pts[2], w[1], w[2])
            /\ Len(pts) >= 3 => segs[1] = b_pre.val.stroke.segments[1]

\* the fifth sample has come: four segments, the second and third of them
\* cubics that are no trisections, between samples of different widths
C31_Witness ==
    /\ b_op = "add_point"
    /\ Len(builder.val.stroke.points) = 5
    /\ Len(builder.val.stroke.segments) = 4
    /\ builder.val.stroke.segments[2] # Trisection(builder.val.stroke.points[2], builder.val.stroke.points[3], builder.val.widths[2], builder.val.widths[3])
    /\ builder.val.stroke.segments[3] # Trisection(builder.val.stroke.points[3], builder.val.stroke.points[4], builder.val.widths[3], builder.val.widths[4])
    /\ builder.val.widths[2] # builder.val.widths[3]

(***************************************************************************)
(* Claims about the render commands the engine facade returns (Spec).      *)
(***************************************************************************)
\* the path segment a renderer is given for a stored segment
AsPathSegment(seg) == [p0 |-> seg.p0, cp1 |-> seg.p1, cp2 |-> seg.p2, p3 |-> seg.p3, start_width |-> seg.start_width, end_width |-> seg.end_width]

\* C12: begin_stroke returns no command; add_point returns no command when
\* the current brush is the eraser or no builder is active, and otherwise
\* (the second or a later sample) exactly one DrawVariableWidthPath with
\* is_eraser = false that carries the last 1 (second sample) or 2 (later
\* samples) segments of the stroke in progress and nothing else.
C12_IncrementalCommands ==
    /\ op = "begin_stroke" => ret = <<>>
    /\ op = "add_point" =>
            IF pre.current_brush.brush_type = "Eraser" \/ ~pre.active_builder.some
            THEN ret = <<>>
            ELSE LET segs == engine.active_builder.val.stroke.segments
                     n == Len(engine.active_builder.val.stroke.points)
                     k == IF n = 2 THEN 1 ELSE 2
                 IN  /\ n >= 2
                     /\ Len(ret) = 1
                     /\ ret[1].cmd = "DrawVariableWidthPath"
                     /\ ret[1].is_eraser = FALSE
                     /\ Len(ret[1].segments) = k
                     /\ \A i \in 1..k : ret[1].segments[i] = AsPathSegment(segs[Len(segs) - k + i])

\* the third sample of a pen stroke has been drawn with two segments
C12_Witness ==
    /\ op = "add_point"
    /\ pre.active_builder.some
    /\ pre.current_brush.brush_type = "Pen"
    /\ Len(engine.active_builder.val.stroke.points) = 3
    /\ Len(ret) = 1
    /\ Len(ret[1].segments) = 2

(***************************************************************************)
(* Claims about the whole facade (SpecFacade).                             *)
(***************************************************************************)
\* the strokes of a layer that have at least one segment, in insertion order
WithSegments(strokes) == SelectSeq(strokes, LAMBDA st : st.segments # <<>>)

\* the strokes full_render paints: those of the visible layers, layer by layer
RECURSIVE PaintedUpTo(_, _)
PaintedUpTo(layers, k) ==
    IF k = 0 THEN <<>>
    ELSE PaintedUpTo(layers, k - 1) \o (IF layers[k].visible THEN WithSegments(layers[k].strokes) ELSE <<>>)

\* the calls that end with self.full_render()
FullRenderCalls == {"end_stroke", "undo", "redo", "zoom", "pan", "reset_viewport"}

\* C11: a full render is Clear(background), SaveState, SetTransform(scale,
\* offset_x, offset_y), one DrawVariableWidthPath per stroke with a segment
\* of each visible layer (layers in order, strokes in insertion order), then
\* RestoreState: 4 commands plus one per such stroke.
C11_FullRenderSequence ==
    op \in FullRenderCalls =>
        LET painted == PaintedUpTo(engine.layer_manager.layers, Len(engine.layer_manager.layers))
        IN  /\ Len(ret) = 4 + Len(painted)
            /\ ret[1] = [cmd |-> "Clear", color |-> engine.background_color]
            /\ ret[2] = [cmd |-> "SaveState"]
            /\ ret[3] = [cmd |-> "SetTransform", scale |-> engine.viewport.scale, translate_x |-> engine.viewport.offset_x, translate_y |-> engine.viewport.offset_y]
            /\ \A i \in 1..Len(painted) :
                   /\ ret[3 + i].cmd = "DrawVariableWidthPath"
                   /\ ret[3 + i].color = painted[i].color
                   /\ ret[3 + i].is_eraser = painted[i].is_eraser
                   /\ Len(ret[3 + i].segments) = Len(painted[i].segments)
                   /\ \A k \in 1..Len(painted[i].segments) : ret[3 + i].segments[k] = AsPathSegment(painted[i].segments[k])
            /\ ret[Len(ret)] = [cmd |-> "RestoreState"]

\* a full render at a zoomed and panned viewport of two layers: the hidden
\* one holds a stroke, the visible one a stroke without segments and one with
C11_Witness ==
    /\ op \in {"zoom", "pan"}
    /\ engine.viewport.scale # 1000
    /\ engine.viewport.offset_x # 0
    /\ Len(engine.layer_manager.layers) = 2
    /\ ~engine.layer_manager.layers[1].visible
    /\ engine.layer_manager.layers[1].strokes # <<>>
    /\ \E i \in 1..Len(engine.layer_manager.layers[2].strokes) : engine.layer_manager.layers[2].strokes[i].segments = <<>>
    /\ Len(ret) = 5

\* C16 as stated: load of a document that reads well member by member and
\* whose version is not 1 fails.
C16_LoadRejectsOtherVersions ==
    (op = "load" /\ DocumentOk(arg.val) /\ arg.val.v.version.v # 1) => ~ret.ok

\* C17: when load returns an error the engine is what it was before the call:
\* canvas size, background, layers, active layer index, history, viewport,
\* current brush and active builder.
C17_FailedLoadChangesNothing ==
    (op = "load" /\ ~ret.ok) =>
        /\ engine.canvas_width = pre.canvas_width
        /\ engine.canvas_height = pre.canvas_height
        /\ engine.background_color = pre.background_color
        /\ engine.layer_manager = pre.layer_manager
        /\ engine.history = pre.history
        /\ engine.viewport = pre.viewport
        /\ engine.current_brush = pre.current_brush
        /\ engine.active_builder = pre.active_builder
        /\ engine = pre

\* a document with a missing member has been refused by an engine with a
\* stroke to redo, a moved viewport and the eraser as brush
C17_Witness ==
    /\ op = "load"
    /\ ~ret.ok
    /\ arg.val.t = "obj"
    /\ can_redo(pre.history)
    /\ pre.viewport.offset_x # 0
    /\ pre.current_brush.brush_type = "Eraser"

\* the layers a document holds, read member by member
LayersOf(json) == [i \in 1..Len(json.v.layers.v) |-> LayerFromJson(json.v.layers.v[i])]

\* C18: a successful load installs the document's width, height, background
\* colour and layers, empties both history stacks, sets active_layer_index to
\* 0, installs one empty default layer when the document has no layer, and
\* leaves the viewport and the current brush alone.
C18_SuccessfulLoadInstalls ==
    (op = "load" /\ ret.ok) =>
        /\ engine.canvas_width = arg.val.v.width.v
        /\ engine.canvas_height = arg.val.v.height.v
        /\ engine.background_color = [r |-> arg.val.v.background_color.v.r.v, g |-> arg.val.v.background_color.v.g.v,
                                      b |-> arg.val.v.background_color.v.b.v, a |-> arg.val.v.background_color.v.a.v]
        /\ arg.val.v.layers.v # <<>> => engine.layer_manager.layers = LayersOf(arg.val)
        /\ arg.val.v.layers.v = <<>> =>
               /\ Len(engine.layer_manager.layers) = 1
               /\ engine.layer_manager.layers[1].strokes = <<>>
               /\ engine.layer_manager.layers[1].name = "Layer 1"
               /\ engine.layer_manager.layers[1].visible
        /\ ~can_undo(engine.history)
        /\ ~can_redo(engine.history)
        /\ engine.layer_manager.active_layer_index = 0
        /\ engine.viewport = pre.viewport
        /\ engine.current_brush = pre.current_brush

\* two layers have replaced the one layer of an engine of another size that
\* had a stroke to undo, a moved viewport and the eraser as brush
C18_Witness ==
    /\ op = "load"
    /\ ret.ok
    /\ Len(engine.layer_manager.layers) = 2
    /\ StrokeCount(engine) = 3
    /\ can_undo(pre.history)
    /\ pre.viewport # ViewportNew
    /\ pre.current_brush.brush_type = "Eraser"
    /\ pre.canvas_width # engine.canvas_width
    /\ pre.background_color # engine.background_color

\* what C19 compares of two strokes
SameStroke(s1, s2) ==
    /\ s1.id = s2.id
    /\ s1.points = s2.points
    /\ s1.segments = s2.segments
    /\ s1.brush = s2.brush
    /\ s1.is_eraser = s2.is_eraser

\* a second engine, DrawEngine::new(800, 600), after load of the text
SecondEngineAfterLoad(text) == Load(DrawEngineNew(8000, 6000, 30), text, 31)

\* the second engine e2 holds what e1 holds
SameDocument(e1, e2) ==
    /\ e2.canvas_width = e1.canvas_width
    /\ e2.canvas_height = e1.canvas_height
    /\ Len(e2.layer_manager.layers) = Len(e1.layer_manager.layers)
    /\ \A i \in 1..Len(e1.layer_manager.layers) :
           /\ Len(e2.layer_manager.layers[i].strokes) = Len(e1.layer_manager.layers[i].strokes)
           /\ \A k \in 1..Len(e1.layer_manager.layers[i].strokes) :
                  SameStroke(e1.layer_manager.layers[i].strokes[k], e2.layer_manager.layers[i].strokes[k])

C20_ActiveLayerInBounds ==
    /\ Len(engine.layer_manager.layers) >= 1
    /\ 0 <= engine.layer_manager.active_layer_index
    /\ engine.layer_manager.active_layer_index < Len(engine.layer_manager.layers)

\* a document without layers has been loaded
C20_Witness ==
    /\ op = "load"
    /\ ret.ok
    /\ arg.val.v.layers.v = <<>>
    /\ Len(pre.layer_manager.layers[1].strokes) = 1
    /\ engine.layer_manager.layers[1].strokes = <<>>


(***************************************************************************)
(* Claims about strokes in flight on the engine facade (Spec).             *)
(***************************************************************************)
\* the StrokePoint begin_stroke and add_point make of a sample s (screen x,
\* screen y, pressure, timestamp) under the viewport v
SamplePoint(v, s) == StrokePoint(ScreenToCanvas(v, Point(s[1], s[2])).x, ScreenToCanvas(v, Point(s[1], s[2])).y, s[3], s[4])

\* the ids of the strokes the layers of e hold
IdsInLayers(e) == UNION {{e.layer_manager.layers[i].strokes[j].id : j \in 1..Len(e.layer_manager.layers[i].strokes)} : i \in 1..Len(e.layer_manager.layers)}

\* the ids of the strokes the undo and redo stacks of e hold
IdsInHistory(e) ==
    {e.history.undo_stack[i].stroke.id : i \in 1..Len(e.history.undo_stack)} \cup {e.history.redo_stack[i].stroke.id : i \in 1..Len(e.history.redo_stack)}

\* C21: a begin_stroke issued while a builder is active abandons the stroke in
\* flight: an abandoned stroke is in no layer and in no history stack, the
\* begin_stroke itself leaves layers and history as they were, the builder
\* holds exactly the samples given since the latest begin_stroke, and an
\* end_stroke adds at most one stroke, the one with the id and the samples of
\* the builder it took.
C21_SecondBeginAbandons ==
    /\ abandoned \cap (IdsInLayers(engine) \cup IdsInHistory(engine)) = {}
    /\ (op = "begin_stroke" /\ pre.active_builder.some) =>
           /\ engine.layer_manager = pre.layer_manager
           /\ engine.history = pre.history
           /\ engine.active_builder.val.stroke.id # pre.active_builder.val.stroke.id
    /\ engine.active_builder.some =>
           engine.active_builder.val.stroke.points = [i \in 1..Len(since_begin) |-> SamplePoint(engine.viewport, since_begin[i])]
    /\ op = "end_stroke" =>
           /\ Cardinality(IdsInLayers(engine) \ IdsInLayers(pre)) <= 1
           /\ Cardinality(IdsInHistory(engine) \ IdsInHistory(pre)) <= 1
           /\ \A i \in 1..Len(engine.layer_manager.layers) : \A j \in 1..Len(engine.layer_manager.layers[i].strokes) :
                  engine.layer_manager.layers[i].strokes[j].id \notin IdsInLayers(pre) =>
                      /\ pre.active_builder.some
                      /\ engine.layer_manager.layers[i].strokes[j].id = pre.active_builder.val.stroke.id
                      /\ engine.layer_manager.layers[i].strokes[j].points = pre.active_builder.val.stroke.points

\* a stroke was abandoned by a second begin_stroke, and the end_stroke just
\* made has committed the stroke begun after it
C21_Witness ==
    /\ op = "end_stroke"
    /\ abandoned # {}
    /\ Cardinality(IdsInLayers(engine) \ IdsInLayers(pre)) = 1
    /\ Len(pre.active_builder.val.stroke.points) >= 2

\* the point lies outside the box grown by margin on every side
OutsideInflated(bb, point, margin) ==
    IF point.x < bb.min_x - margin THEN TRUE
    ELSE IF point.x > bb.max_x + margin THEN TRUE
    ELSE IF point.y < bb.min_y - margin THEN TRUE
    ELSE point.y > bb.max_y + margin

\* the greatest width the brush of the stroke can give: base_width * max_width_factor
MaxWidthOf(stroke) == (stroke.brush.base_width * stroke.brush.max_width_factor) \div 1000

\* the eraser sample lies outside the box of every candidate, grown by
\* eraser_radius + max_width/2
OutsideEveryCandidate(strokes, point, radius) ==
    \A i \in 1..Len(strokes) : OutsideInflated(strokes[i].bounding_box, point, radius + MaxWidthOf(strokes[i]) \div 2)

\* the radius end_stroke erases with around a sample: half the width the
\* current brush gives its pressure at velocity 0
EraserRadiusAt(e, sp) == ComputeWidth(e.current_brush, sp.pressure, 0) \div 2

\* the samples of the stroke an end_stroke finishes
EndedSamples(e) == e.active_builder.val.stroke.points

\* C26: when end_stroke erases, a sample outside the bounding box of every
\* stroke of the active layer grown by eraser_radius + max_width/2 yields no
\* ids from find_strokes_to_erase, and when all samples of the eraser stroke
\* are such the layers stay as they were.
C26_FarEraserErasesNothing ==
    (op = "end_stroke" /\ pre.active_builder.some /\ pre.current_brush.brush_type = "Eraser") =>
        /\ \A i \in 1..Len(EndedSamples(pre)) :
              OutsideEveryCandidate(ActiveLayer(pre.layer_manager).strokes, EndedSamples(pre)[i].position, EraserRadiusAt(pre, EndedSamples(pre)[i])) =>
                  FindStrokesToErase(ActiveLayer(pre.layer_manager).strokes, EndedSamples(pre)[i].position, EraserRadiusAt(pre, EndedSamples(pre)[i])) = <<>>
        /\ (\A i \in 1..Len(EndedSamples(pre)) :
              OutsideEveryCandidate(ActiveLayer(pre.layer_manager).strokes, EndedSamples(pre)[i].position, EraserRadiusAt(pre, EndedSamples(pre)[i]))) =>
                  engine.layer_manager = pre.layer_manager

\* an eraser stroke has ended over a layer that holds a stroke, with every
\* sample outside the grown box of that stroke
C26_Witness ==
    /\ op = "end_stroke"
    /\ pre.active_builder.some
    /\ pre.current_brush.brush_type = "Eraser"
    /\ EndedSamples(pre) # <<>>
    /\ ActiveLayer(pre.layer_manager).strokes # <<>>
    /\ \A i \in 1..Len(EndedSamples(pre)) :
          OutsideEveryCandidate(ActiveLayer(pre.layer_manager).strokes, EndedSamples(pre)[i].position, EraserRadiusAt(pre, EndedSamples(pre)[i]))
    /\ engine.layer_manager = pre.layer_manager

\* C32: an end_stroke that pushes exactly one history action followed by one
\* undo leaves the ordered stroke list of the active layer equal to the list
\* before that end_stroke.
C32_UndoRestoresPaintOrder ==
    commit_run.phase = "undone" => ActiveLayer(engine.layer_manager).strokes = commit_run.before

(***************************************************************************)
(* Claims about strokes in flight on the whole facade (SpecFacade).        *)
(***************************************************************************)
\* C22: a builder exists only between begin_stroke and end_stroke: the active
\* builder is present if and only if the latest call among begin_stroke and
\* end_stroke was begin_stroke, whatever add_point, undo, redo, zoom, pan,
\* reset_viewport, set_brush, save or load came in between.
C22_BuilderOnlyBetweenBeginAndEnd == engine.active_builder.some <=> stroke_open

\* a document has been loaded while a stroke of two samples was in flight
C22_Witness ==
    /\ op = "load"
    /\ ret.ok
    /\ stroke_open
    /\ Len(since_begin) = 2
    /\ engine.active_builder.some

(***************************************************************************)
(* Claims about a Viewport on its own (SpecViewport).                      *)
(***************************************************************************)
\* min_scale <= scale <= max_scale, as f64 comparisons
ScaleInBounds(v) == F64Le(v.min_scale, v.scale) /\ F64Le(v.scale, v.max_scale)

\* C23 as stated: after any sequence of zoom calls (any factors, any focal
\* points) interleaved with pan and reset, min_scale <= scale <= max_scale.
C23_ScaleAlwaysInBounds == ScaleInBounds(viewport)

\* C23 amended: after any sequence of zoom calls (any focal points)
\* interleaved with pan and reset in which no zoom was given the factor NaN,
\* min_scale <= scale <= max_scale.
C23_ScaleInBoundsUnlessNaNFactor == ~v_nan_zoom => ScaleInBounds(viewport)

\* a zoom by x100 has been clamped by max_scale and a zoom by x0.001 has then
\* been clamped by min_scale
C23_Witness ==
    /\ ~v_nan_zoom
    /\ v_op = "zoom"
    /\ v_arg.val.factor = 1
    /\ v_pre.scale = v_pre.max_scale
    /\ viewport.scale = viewport.min_scale

\* the screen point the viewport v1 gives to the canvas point that the
\* viewport v gave to the screen point focal
FocalAfter(v, v1, focal) == CanvasToScreen(v1, ScreenToCanvas(v, focal))

\* zoom has kept the focal point where it was, and has left the offsets alone
\* when it has left the scale alone
FocalPointFixed(v, v1, focal) ==
    /\ F64Eq(FocalAfter(v, v1, focal).x, focal.x)
    /\ F64Eq(FocalAfter(v, v1, focal).y, focal.y)
    /\ F64Eq(v1.scale, v.scale) => (F64Eq(v1.offset_x, v.offset_x) /\ F64Eq(v1.offset_y, v.offset_y))

\* none of the numbers of the viewport v is NaN
ViewportIsNumbers(v) == ~IsNaN(v.scale) /\ ~IsNaN(v.offset_x) /\ ~IsNaN(v.offset_y)

\* C24 as stated: for any viewport state and any zoom(factor, focal),
\* clamped or not, the canvas point that mapped to the focal screen point
\* before the call maps to the same screen point after it, and the offsets are
\* unchanged when the scale was at the clamp limit and stays there.
C24_ZoomKeepsFocalPoint == v_op = "zoom" => FocalPointFixed(v_pre, viewport, v_arg.val.focal)

\* C24 amended: the same for any zoom whose factor and focal coordinates are
\* not NaN, made on a viewport whose scale and offsets are not NaN.
C24_ZoomKeepsFocalPointOfNumbers ==
    (/\ v_op = "zoom"
     /\ ~IsNaN(v_arg.val.factor)
     /\ ~IsNaN(v_arg.val.focal.x)
     /\ ~IsNaN(v_arg.val.focal.y)
     /\ ViewportIsNumbers(v_pre)) => FocalPointFixed(v_pre, viewport, v_arg.val.focal)

\* a panned viewport at scale 2 has been zoomed by x100 toward (960, 540),
\* which max_scale has clamped to x5
C24_Witness ==
    /\ v_op = "zoom"
    /\ v_arg.val.factor = 100000
    /\ v_arg.val.focal = Point(9600, 5400)
    /\ v_pre.scale = 2000
    /\ v_pre.offset_x # 0
    /\ viewport.scale = viewport.max_scale
    /\ ViewportIsNumbers(v_pre)

(***************************************************************************)
(* Claims about find_strokes_to_erase on its own (SpecEraser).             *)
(***************************************************************************)
\* some sample of some segment of the stroke, at t in {0, 1/20, ..., 1}, lies
\* within radius + width_at(t)/2 of the point
SomeSampleWithin(stroke, point, radius) ==
    \E i \in 1..Len(stroke.segments) : \E step \in 0..20 :
        DistanceTo(Evaluate(stroke.segments[i], step, 20), point) <= radius + WidthAt(stroke.segments[i], step, 20) \div 2

\* the bounding box of the stroke meets the square of side 2 * radius around the point
BoxMeetsSquare(stroke, point, radius) ==
    /\ stroke.bounding_box.min_x <= point.x + radius
    /\ stroke.bounding_box.max_x >= point.x - radius
    /\ stroke.bounding_box.min_y <= point.y + radius
    /\ stroke.bounding_box.max_y >= point.y - radius

\* the stroke is one find_strokes_to_erase is to return
ToBeErased(stroke, point, radius) ==
    /\ ~stroke.is_eraser
    /\ stroke.bounding_box.min_x <= stroke.bounding_box.max_x
    /\ stroke.bounding_box.min_y <= stroke.bounding_box.max_y
    /\ BoxMeetsSquare(stroke, point, radius)
    /\ SomeSampleWithin(stroke, point, radius)

\* the positions in the slice of the strokes to be erased, in increasing order
ErasedPositions(strokes, point, radius) == {i \in 1..Len(strokes) : ToBeErased(strokes[i], point, radius)}

WidthBrush == builder.val.stroke.brush

\* the width lies in [base_width * min_width_factor, base_width * max_width_factor]
WidthInRange(brush, w) ==
    /\ w # F64NaN
    /\ (brush.base_width * brush.min_width_factor) \div 1000 <= w
    /\ w <= (brush.base_width * brush.max_width_factor) \div 1000

\* every start_width and end_width the builder has stored is > 0
StoredWidthsPositive ==
    \A i \in 1..Len(builder.val.stroke.segments) :
        /\ builder.val.stroke.segments[i].start_width # F64NaN
        /\ builder.val.stroke.segments[i].start_width > 0
        /\ builder.val.stroke.segments[i].end_width # F64NaN
        /\ builder.val.stroke.segments[i].end_width > 0

\* a velocity above 1000 gives the width velocity 1000 gives
CappedAbove1000 ==
    (w_velocity # F64NaN /\ w_velocity > 1000) => w_ret = ComputeWidth(WidthBrush, w_pressure, 1000)

Writing == {t \in Threads : l_pc[t] \in {"write_locked", "write_half"}}

\* the threads inside a query
Reading == {t \in Threads : l_pc[t] \in {"read_locked", "read_half"}}

\* what the query name answers on the engine e
AnswerOn(name, e) ==
    CASE name = "get_state" -> [NoSnap EXCEPT !.offset_x = e.viewport.offset_x, !.offset_y = e.viewport.offset_y, !.stroke_count = StrokeCount(e), !.can_undo = e.history.undo_stack # <<>>, !.can_redo = e.history.redo_stack # <<>>, !.scale = e.viewport.scale, !.active_layer_id = ActiveLayer(e.layer_manager).id]
      [] name = "full_render" -> [NoSnap EXCEPT !.render = FullRender(e)]
      [] name = "save" -> [NoSnap EXCEPT !.json = Some(Save(e).ret)]

\* C29: a thread inside a mutating method is alone inside any method, and
\* the engine differs from what the last complete mutating call left only
\* while a thread is inside one; a thread inside a query finds the engine as
\* the last complete mutating call left it and it stays so until the query
\* returns; what a returned query has read, the stroke_count, can_undo and
\* can_redo of a get_state included, is its answer on that one state.
C29_CallsSeeWholeStates ==
    /\ Cardinality(Writing) <= 1
    /\ Writing # {} => Reading = {}
    /\ engine # l_committed => Writing # {}
    /\ \A t \in Reading : engine = l_committed /\ l_seen[t] = engine
    /\ \A t \in Threads : (l_pc[t] = "idle" /\ l_call[t] \in Queries) => l_snap[t] = AnswerOn(l_call[t], l_seen[t])

\* the render thread's get_state has returned what a completed load left,
\* and the input thread is now in the middle of a zoom, with offset_x
\* already moved away from what the get_state returned
C29_Witness ==
    /\ l_pc["render"] = "idle"
    /\ l_call["render"] = "get_state"
    /\ l_snap["render"].stroke_count >= 1
    /\ l_pc["input"] = "write_half"
    /\ l_call["input"] = "zoom"
    /\ engine # l_committed
    /\ l_snap["render"].offset_x # engine.viewport.offset_x
    /\ l_snap["render"].scale = engine.viewport.scale

(***************************************************************************)
(* Claims about the history and the layers of an engine whose history      *)
(* evicts (SpecEvict).                                                     *)
(***************************************************************************)
\* the number of strokes in all layers, counted stroke by stroke
TotalStrokes(e) == Cardinality({<<i, j>> \in (1..Len(e.layer_manager.layers)) \X (1..(MaxStrokes + 1)) : j <= Len(e.layer_manager.layers[i].strokes)})

\* C33: an undo made while can_undo holds changes stroke_count by exactly
\* one, -1 when the action undone is an AddStroke and +1 when it is a
\* RemoveStroke; a redo made while can_redo holds changes it by +1 for an
\* AddStroke and by -1 for a RemoveStroke; older actions may have been
\* evicted.
C33_UndoRedoMoveOneStroke ==
    /\ (op = "undo" /\ pre.history.undo_stack # <<>>) =>
           TotalStrokes(engine) = TotalStrokes(pre) + (IF pre.history.undo_stack[Len(pre.history.undo_stack)].tag = "AddStroke" THEN -1 ELSE 1)
    /\ (op = "redo" /\ pre.history.redo_stack # <<>>) =>
           TotalStrokes(engine) = TotalStrokes(pre) + (IF pre.history.redo_stack[Len(pre.history.redo_stack)].tag = "AddStroke" THEN 1 ELSE -1)

\* three strokes were committed, so the first AddStroke was evicted; the
\* history is now empty after two undos and the layer still holds a stroke
C33_Witness ==
    /\ op = "undo"
    /\ Len(pre.history.undo_stack) = 1
    /\ Len(pre.history.redo_stack) = 1
    /\ TotalStrokes(pre) = 2
    /\ TotalStrokes(engine) = 1
    /\ engine.history.undo_stack = <<>>

\* the places of the document of e that hold a stroke: <<layer, position>>
StrokePlaces(e) ==
    {pl \in (1..Len(e.layer_manager.layers)) \X (1..(MaxStrokes + 1)) : pl[2] <= Len(e.layer_manager.layers[pl[1]].strokes)}

\* C37: no stroke id occurs twice in the document, neither twice in one
\* layer nor in two layers, whatever strokes, erases, undos, redos and
\* evictions of history actions led to the state.
C37_StrokeIdsAreUnique ==
    \A p1 \in StrokePlaces(engine) : \A p2 \in StrokePlaces(engine) :
        engine.layer_manager.layers[p1[1]].strokes[p1[2]].id = engine.layer_manager.layers[p2[1]].strokes[p2[2]].id => p1 = p2

\* two strokes were committed and the first one erased, which evicted its
\* AddStroke; the undo of the erase has put it back next to the second
C37_Witness ==
    /\ op = "undo"
    /\ pre.history.undo_stack # <<>>
    /\ pre.history.undo_stack[Len(pre.history.undo_stack)].tag = "RemoveStroke"
    /\ Len(engine.history.undo_stack) = 1
    /\ engine.history.undo_stack[1].tag = "AddStroke"
    /\ Cardinality(StrokePlaces(engine)) = 2
    /\ engine.history.undo_stack[1].stroke.id # pre.history.undo_stack[Len(pre.history.undo_stack)].stroke.id

(***************************************************************************)
(* Claims about what the calls of the engine facade leave alone (Spec).    *)
(***************************************************************************)
\* the eraser path of the stroke that e is building hits no stroke of the
\* active layer
EraserPathHitsNothing(e) ==
    \A i \in 1..Len(EndedSamples(e)) : \A j \in 1..Len(ActiveLayer(e.layer_manager).strokes) :
        ~ToBeErased(ActiveLayer(e.layer_manager).strokes[j], EndedSamples(e)[i].position, EraserRadiusAt(e, EndedSamples(e)[i]))

\* the end_stroke made on e has nothing to commit: a pen stroke of a single
\* sample, or an eraser path that hits nothing
CommitsNothing(e) ==
    /\ e.active_builder.some
    /\ IF e.current_brush.brush_type = "Eraser"
       THEN EraserPathHitsNothing(e)
       ELSE Len(EndedSamples(e)) = 1

\* C34: an end_stroke that commits nothing (a pen stroke of one sample, an
\* eraser path that hits no stroke) changes no layer and leaves the undo and
\* the redo stack exactly as they were.
C34_EmptyEndStrokeChangesNothing ==
    (op = "end_stroke" /\ CommitsNothing(pre)) =>
        /\ engine.layer_manager = pre.layer_manager
        /\ engine.history.undo_stack = pre.history.undo_stack
        /\ engine.history.redo_stack = pre.history.redo_stack

\* a pen stroke of one sample has ended over a layer that holds a stroke,
\* while both stacks held an action
C34_Witness ==
    /\ op = "end_stroke"
    /\ CommitsNothing(pre)
    /\ pre.current_brush.brush_type = "Pen"
    /\ pre.history.undo_stack # <<>>
    /\ pre.history.redo_stack # <<>>
    /\ engine.history.redo_stack # <<>>
    /\ ActiveLayer(pre.layer_manager).strokes # <<>>

\* an eraser path that hit nothing has ended while the redo stack held an action
C34_WitnessEraser ==
    /\ op = "end_stroke"
    /\ CommitsNothing(pre)
    /\ pre.current_brush.brush_type = "Eraser"
    /\ pre.history.redo_stack # <<>>
    /\ ActiveLayer(pre.layer_manager).strokes # <<>>

\* C35: add_point and end_stroke called while no builder is active change
\* nothing of the engine (layers, history, viewport, brush, builder);
\* add_point returns no command and end_stroke returns what full_render
\* returns.
C35_NoBuilderNoEffect ==
    (op \in {"add_point", "end_stroke"} /\ ~pre.active_builder.some) =>
        /\ engine = pre
        /\ op = "add_point" => ret = <<>>
        /\ op = "end_stroke" => ret = FullRender(pre)

\* add_point was called without a builder on an engine that holds a stroke
\* and an undone action
C35_Witness ==
    /\ op = "add_point"
    /\ ~pre.active_builder.some
    /\ StrokeCount(pre) >= 1
    /\ pre.history.redo_stack # <<>>
    /\ ret = <<>>

\* end_stroke was called without a builder and returned the commands of the
\* strokes the engine holds
C35_WitnessEndStroke ==
    /\ op = "end_stroke"
    /\ ~pre.active_builder.some
    /\ StrokeCount(pre) >= 1
    /\ ret = FullRender(pre)
    /\ Len(ret) >= 2

(***************************************************************************)
(* Claims about what the calls of the whole facade leave alone             *)
(* (SpecFacade).                                                           *)
(***************************************************************************)
\* the calls that are to leave the layers and the history alone
FrameCalls == {"begin_stroke", "add_point", "set_brush", "zoom", "pan", "reset_viewport", "full_render", "save"}

\* the calls that may change stroke_count, can_undo and can_redo
CommitCalls == {"end_stroke", "undo", "redo", "load"}

\* stroke_count, can_undo and can_redo of e
Counters(e) == <<StrokeCount(e), e.history.undo_stack # <<>>, e.history.redo_stack # <<>>>>

\* the stroke that e is building is in no layer of e
InFlightInNoLayer(e) ==
    \A i \in 1..Len(e.layer_manager.layers) : \A j \in 1..Len(e.layer_manager.layers[i].strokes) :
        e.layer_manager.layers[i].strokes[j].id # e.active_builder.val.stroke.id

\* C36: begin_stroke, add_point, set_brush, zoom, pan, reset_viewport,
\* full_render and save leave the layers and both history stacks as they
\* were; stroke_count, can_undo and can_redo change only in end_stroke, undo,
\* redo and load; the stroke in flight is in no layer, and the samples it
\* takes change neither stroke_count nor what full_render returns.
C36_OnlyCommitsTouchLayersAndHistory ==
    /\ op \in FrameCalls =>
          /\ engine.layer_manager = pre.layer_manager
          /\ engine.history = pre.history
    /\ Counters(engine) # Counters(pre) => op \in CommitCalls
    /\ engine.active_builder.some => InFlightInNoLayer(engine)
    /\ op \in {"begin_stroke", "add_point"} =>
          /\ StrokeCount(engine) = StrokeCount(pre)
          /\ FullRender(engine) = FullRender(pre)

\* a loaded document is on the canvas, a stroke in flight has taken its
\* second sample, and the full render is the one of the document alone
C36_Witness ==
    /\ op = "add_point"
    /\ pre.active_builder.some
    /\ Len(engine.active_builder.val.stroke.segments) = 1
    /\ ret # <<>>
    /\ StrokeCount(engine) = 3
    /\ FullRender(engine) = FullRender(pre)

(***************************************************************************)
(* Claims about two threads drawing on one DrawEngineFFI (SpecPens).       *)
(***************************************************************************)
\* both threads have returned from their end_stroke
BothDone == \A t \in Pens : p_done[t] = 3

\* the samples thread t supplied, as the stroke points they were stored as
\* (the viewport is the identity)
SentPoints(t) == [i \in 1..Len(p_sent[t]) |-> StrokePoint(p_sent[t][i][1], p_sent[t][i][2], p_sent[t][i][3], p_sent[t][i][4])]

\* some stroke of the active layer consists of the samples of thread t
OwnStrokeCommitted(t) ==
    \E j \in 1..Len(ActiveLayer(engine.layer_manager).strokes) :
        ActiveLayer(engine.layer_manager).strokes[j].points = SentPoints(t)

\* C39 as stated: once both threads have run begin_stroke, add_point,
\* end_stroke, in whatever order their calls interleaved, stroke_count has
\* grown by 2 and each thread's samples make up a committed stroke.
C39_BothStrokesCommitted ==
    BothDone =>
        /\ StrokeCount(engine) = 2
        /\ \A t \in Pens : OwnStrokeCommitted(t)

\* C39 amended: both strokes are committed, each with its own thread's
\* samples, when no begin_stroke was called while the other thread was
\* inside its sequence; when the sequences overlapped, at most one stroke is
\* committed.
C39_BothCommittedUnlessOverlapped ==
    BothDone =>
        IF p_overlap
        THEN StrokeCount(engine) <= 1
        ELSE /\ StrokeCount(engine) = 2
             /\ \A t \in Pens : OwnStrokeCommitted(t)

\* the sequences overlapped and the one stroke committed holds samples of
\* both threads
C39_Witness ==
    /\ BothDone
    /\ p_overlap
    /\ StrokeCount(engine) = 1
    /\ \A t \in Pens : \E i \in 1..Len(ActiveLayer(engine.layer_manager).strokes[1].points) :
          \E k \in 1..Len(SentPoints(t)) : ActiveLayer(engine.layer_manager).strokes[1].points[i] = SentPoints(t)[k]

\* the sequences ran one after the other and both strokes are in the layer
C39_WitnessSerial ==
    /\ BothDone
    /\ ~p_overlap
    /\ StrokeCount(engine) = 2
    /\ \A t \in Pens : OwnStrokeCommitted(t)

=========================================================================
